---- MODULE Spec2Model ----
(***************************************************************************)
(* A model of the enrichment library: the orchestrator                     *)
(* (EnhancedEnrichmentService.enrichCompany / enrichCompanies /            *)
(* discoverTickers), its counting Semaphore, the ticker discovery cascade  *)
(* (TickerDiscoveryService.discoverTicker) and the SEC client              *)
(* (SECEdgarClient.identifyPublicCompany / getCompanySubmissions /         *)
(* listAllFilings / downloadAllFilings), the base-profile client           *)
(* (CrustDataClient.enrichCompany) and the signal extractor                *)
(* (SECSignalsExtractor.extractSignals).                                   *)
(*                                                                         *)
(* JavaScript runs one handler at a time: an action below is one macrotask *)
(* (a public call, an I/O completion, a timer) together with every         *)
(* microtask it triggers (promise continuations, finally blocks).          *)
(***************************************************************************)
EXTENDS Integers, Sequences, FiniteSets, TLC

VARIABLES
  call,   \* the public method in flight: "none" before any call
  bulk,   \* the enrichCompanies call: loop index, phase, results, counters
  req,    \* one enrichCompany request per input identifier
  tick,   \* the discoverTickers call: its semaphore, tasks and results
  disc,   \* the discoverTicker call: the strategy cascade
  sec,    \* the identifyPublicCompany call: lookups, directory, result
  edgar,  \* the getCompanySubmissions / listAllFilings call
  dl,     \* the downloadAllFilings call: items, loop position, outputs
  crust,  \* the CrustDataClient.enrichCompany call: lookups and outcome
  sig,    \* the extractSignals call: parsed response and returned record
  scrape, \* the FirecrawlScraper.scrapeUrl call: attempts, waits and result
  ext     \* the extractTickerFromContent call: the text and what it returned

vars == <<call, bulk, req, tick, disc, sec, edgar, dl, crust, sig, scrape, ext>>

(***************************************************************************)
(* Bounds of the model.                                                    *)
(***************************************************************************)
MaxIds == 4        \* longest identifier list passed to enrichCompanies
MaxConc == 3       \* largest maxConcurrency option passed by a caller
MaxCompanies == 4  \* longest company list passed to discoverTickers
MaxWords == 5      \* most words in a company name given to identifyPublicCompany
MaxDirectory == 6  \* most entries in the ticker directory
MaxCikLen == 10    \* longest digit string given to getCompanySubmissions
MaxFilings == 2    \* most filings in the recent submissions of a company
MaxSignals == 2    \* most entries in a list of the parsed analysis response
MaxScrapeRetries == 4  \* largest maxRetries given to a FirecrawlScraper
MaxFairIds == 2    \* longest identifier list in the runs checked for progress
MaxLate == 1       \* most abandoned strategy bodies followed to their late settlement

(***************************************************************************)
(* JavaScript values.  null/undefined is the string "null"; an optional    *)
(* numeric option is a set: {} when absent, {k} when given.                *)
(***************************************************************************)
Null == "null"

Truthy(x) == x # Null /\ x # ""

OrElse(a, b) == IF Truthy(a) THEN a ELSE b

SeqRange(s) == {s[i] : i \in 1..Len(s)}

(***************************************************************************)
(* class Semaphore.  granted is a history of the order in which acquire()  *)
(* promises were resolved; permits and waiting are the fields.             *)
(***************************************************************************)
Semaphore(permits) == [permits |-> permits, waiting |-> <<>>, granted |-> <<>>]

\* Faulty variant of acquire: the permit test is off by one.
acquireOffByOne(s, t) ==
  IF s.permits >= 0
    THEN [s EXCEPT !.permits = @ - 1, !.granted = Append(@, t)]
    ELSE [s EXCEPT !.waiting = Append(@, t)]

acquire(s, t) ==
  IF s.permits > 0
    THEN [s EXCEPT !.permits = @ - 1, !.granted = Append(@, t)]
    ELSE [s EXCEPT !.waiting = Append(@, t)]

\* Faulty variant of release: the permit is returned, no waiter is woken.
releaseNoWake(s) == [s EXCEPT !.permits = @ + 1]

\* Faulty variant of release: waiting.pop() instead of waiting.shift().
releaseLIFO(s) ==
  LET up == [s EXCEPT !.permits = @ + 1]
      n == Len(up.waiting)
  IN  IF n = 0
        THEN up
        ELSE [up EXCEPT !.permits = @ - 1,
                        !.waiting = SubSeq(@, 1, n - 1),
                        !.granted = Append(@, up.waiting[n])]

release(s) ==
  LET up == [s EXCEPT !.permits = @ + 1]
  IN  IF up.waiting = <<>>
        THEN up
        ELSE [up EXCEPT !.permits = @ - 1,
                        !.waiting = Tail(@),
                        !.granted = Append(@, Head(up.waiting))]

\* tasks.map(task => semaphore.acquire()...): the acquires of tasks k..n, in
\* list order, all within the synchronous part of the call.
RECURSIVE acquireAll(_, _, _)
acquireAll(s, k, n) ==
  IF k > n THEN s ELSE acquireAll(acquire(s, k), k + 1, n)

(***************************************************************************)
(* A gate is a record with fields sem, tstate, rel: the semaphore, the     *)
(* state of every gated task and the number of release() calls made on     *)
(* its behalf.  Task states:                                               *)
(*   queued    acquire() pending in the semaphore's waiting list           *)
(*   racing    admitted: the task body and (enrichCompany) its timer run   *)
(*   settled   the task body finished first; permit released              *)
(*   timedout  the timer fired first; permit released, body still running  *)
(*   late      an abandoned body finished after its timeout                *)
(***************************************************************************)
StartGate(permits, n) ==
  LET s == acquireAll(Semaphore(permits), 1, n)
  IN  [sem |-> s,
       tstate |-> [t \in 1..n |-> IF t \in SeqRange(s.granted) THEN "racing" ELSE "queued"],
       rel |-> [t \in 1..n |-> 0]]

\* Faulty variant of GateRelease: release() runs only when the task body
\* won the race, not when the timer did.
GateReleaseUnlessTimeout(g, t, st) ==
  IF st = "timedout"
    THEN [g EXCEPT !.tstate = [@ EXCEPT ![t] = st]]
    ELSE LET s2 == release(g.sem)
         IN  [g EXCEPT !.sem = s2,
                       !.rel = [@ EXCEPT ![t] = @ + 1],
                       !.tstate = [u \in DOMAIN g.tstate |->
                                     IF u = t THEN st
                                     ELSE IF g.tstate[u] = "queued" /\ u \in SeqRange(s2.granted)
                                            THEN "racing"
                                            ELSE g.tstate[u]]]

\* The finally block of the gated wrapper: task t leaves the race in state
\* st and release() runs; a waiter it admits starts at once.
GateRelease(g, t, st) ==
  LET s2 == release(g.sem)
  IN  [g EXCEPT !.sem = s2,
                !.rel = [@ EXCEPT ![t] = @ + 1],
                !.tstate = [u \in DOMAIN g.tstate |->
                              IF u = t THEN st
                              ELSE IF g.tstate[u] = "queued" /\ u \in SeqRange(s2.granted)
                                     THEN "racing"
                                     ELSE g.tstate[u]]]

(***************************************************************************)
(* enrichCompany.                                                          *)
(***************************************************************************)
DefaultMaxConcurrency == 3

DefaultErrorMessage == "Failed to get company data from CrustData"

\* The result object of a request.  enrichmentFields maps a key to the
\* expression its value was read from; dataSources is its data_sources key.
EmptyResult ==
  [company |-> Null, enrichmentFields |-> <<>>,
   ticker |-> Null, tickerConfidence |-> Null, tickerMethod |-> Null,
   isPublic |-> Null, secData |-> Null, secSignals |-> Null,
   exaData |-> Null, firecrawlData |-> Null, error |-> Null,
   success |-> FALSE, dataSources |-> <<>>]

\* const { maxConcurrency = 3 } = options: the default replaces undefined only.
maxConcurrencyOf(o) ==
  IF o.maxConcurrency = {} THEN DefaultMaxConcurrency
  ELSE CHOOSE k \in o.maxConcurrency : TRUE

\* Faulty variant of BuildTasks: the prerequisite fields are not consulted.
BuildTasksUnconditional(o, res) ==
     (IF o.includeCrustData THEN <<"crustdata">> ELSE <<>>)
  \o (IF o.includeTickerDiscovery THEN <<"ticker">> ELSE <<>>)
  \o (IF o.includeSEC THEN <<"sec">> ELSE <<>>)
  \o (IF o.includeSECSignals THEN <<"signals">> ELSE <<>>)
  \o (IF o.includeExa THEN <<"exa">> ELSE <<>>)
  \o (IF o.includeFirecrawl THEN <<"firecrawl">> ELSE <<>>)

\* The task list, built from a snapshot of the shared result.
BuildTasks(o, res) ==
     (IF o.includeCrustData THEN <<"crustdata">> ELSE <<>>)
  \o (IF o.includeTickerDiscovery /\ Truthy(res.company) THEN <<"ticker">> ELSE <<>>)
  \o (IF o.includeSEC /\ (Truthy(res.ticker) \/ Truthy(res.company)) THEN <<"sec">> ELSE <<>>)
  \o (IF o.includeSECSignals /\ res.secData = "public" /\ Truthy(res.ticker)
        THEN <<"signals">> ELSE <<>>)
  \o (IF o.includeExa /\ Truthy(res.company) THEN <<"exa">> ELSE <<>>)
  \o (IF o.includeFirecrawl /\ Truthy(res.company) THEN <<"firecrawl">> ELSE <<>>)

\* CrustDataEnrichmentService.enrichCompany never rejects: it answers with
\* the company, or with success=false and the client's error message (which
\* may be the empty string), or with success=true and no data.
CrustOutcomes == {"ok", "nodata", "error", "error_empty"}

crustDataResult(out) ==
  CASE out = "ok"          -> [success |-> TRUE,  company |-> "co", error |-> Null]
    [] out = "nodata"      -> [success |-> TRUE,  company |-> Null, error |-> Null]
    [] out = "error"       -> [success |-> FALSE, company |-> Null, error |-> "HTTP 404"]
    [] out = "error_empty" -> [success |-> FALSE, company |-> Null, error |-> ""]

\* Faulty variant of crustError: no default message.
crustErrorNoDefault(c) == c.error

\* result.error of the base-profile task when the fetch produced no company.
crustError(c) == OrElse(c.error, DefaultErrorMessage)

Outcomes(kind) == IF kind = "crustdata" THEN CrustOutcomes ELSE {"ok", "fail"}

\* The keys extractEnrichmentFields sets for a complete base profile.
CrustDataKeys ==
  {"company_name", "domain", "description", "industry", "sector",
   "employee_count", "revenue", "founded_year",
   "headquarters_city", "headquarters_state", "headquarters_country",
   "headquarters_address", "linkedin_url", "twitter_url", "facebook_url",
   "instagram_url", "technologies", "total_funding", "last_funding_date",
   "last_funding_round", "investors", "alexa_rank", "monthly_visitors",
   "bounce_rate", "page_views_per_visit", "time_on_site", "contact_email",
   "contact_phone", "contact_address", "crustdata_last_updated",
   "enrichment_source"}

CrustDataFields == [k \in CrustDataKeys |-> "company." \o k]

extractEnrichmentFields(company) == CrustDataFields

\* Faulty variant of RunTask: ticker discovery also clears result.error.
RunTaskTickerClearsError(kind, res, out) ==
  CASE kind = "crustdata" ->
         LET c == crustDataResult(out)
         IN  IF c.success /\ Truthy(c.company)
               THEN [res EXCEPT !.company = c.company,
                                !.enrichmentFields = extractEnrichmentFields(c.company)]
               ELSE [res EXCEPT !.error = crustError(c)]
    [] kind = "ticker" ->
         IF out = "ok"
           THEN [res EXCEPT !.ticker = "TCK", !.tickerConfidence = "0.9",
                            !.tickerMethod = "exa_search", !.isPublic = "true",
                            !.error = Null]
           ELSE res
    [] kind = "sec" ->
         IF out = "ok" THEN [res EXCEPT !.secData = "public"]
                       ELSE [res EXCEPT !.secData = "private"]
    [] kind = "signals" ->
         IF out = "ok" THEN [res EXCEPT !.secSignals = "signals"] ELSE res
    [] kind = "exa" -> [res EXCEPT !.exaData = "data"]
    [] kind = "firecrawl" ->
         IF out = "ok" THEN [res EXCEPT !.firecrawlData = "data"] ELSE res

\* The body of one task: what it writes to the shared result when it ends.
RunTask(kind, res, out) ==
  CASE kind = "crustdata" ->
         LET c == crustDataResult(out)
         IN  IF c.success /\ Truthy(c.company)
               THEN [res EXCEPT !.company = c.company,
                                !.enrichmentFields = extractEnrichmentFields(c.company)]
               ELSE [res EXCEPT !.error = crustError(c)]
    [] kind = "ticker" ->
         IF out = "ok"
           THEN [res EXCEPT !.ticker = "TCK", !.tickerConfidence = "0.9",
                            !.tickerMethod = "exa_search", !.isPublic = "true"]
           ELSE res
    [] kind = "sec" ->
         IF out = "ok" THEN [res EXCEPT !.secData = "public"]
                       ELSE [res EXCEPT !.secData = "private"]
    [] kind = "signals" ->
         IF out = "ok" THEN [res EXCEPT !.secSignals = "signals"] ELSE res
    [] kind = "exa" -> [res EXCEPT !.exaData = "data"]
    [] kind = "firecrawl" ->
         IF out = "ok" THEN [res EXCEPT !.firecrawlData = "data"] ELSE res

\* g's keys written over f
Merge(f, g) ==
  [k \in DOMAIN f \cup DOMAIN g |-> IF k \in DOMAIN g THEN g[k] ELSE f[k]]

\* The keys each sub-record contributes in the finalization pass.
SecFields(res) ==
  IF res.secData = "public"
    THEN [k \in {"is_public_company"} |-> "true"]
         @@ [k \in {"ticker_symbol", "cik", "sec_confidence", "recent_filings",
                    "latest_filing_date"} |-> "secData." \o k]
    ELSE [k \in {"is_public_company"} |-> "false"]

TickerFields(res) ==
  IF Truthy(res.ticker)
    THEN    [k \in {"ticker_symbol"} |-> "result.ticker"]
         @@ [k \in {"ticker_confidence"} |-> "result.tickerConfidence"]
         @@ [k \in {"ticker_method"} |-> "result.tickerMethod"]
    ELSE <<>>

SignalFields(res) ==
  IF Truthy(res.secSignals)
    THEN [k \in {"sec_signals_extracted"} |-> "true"]
         @@ [k \in {"total_signals", "financial_health_score",
                    "technology_readiness_score", "urgency_score",
                    "opportunity_score"} |-> "secSignals." \o k]
    ELSE <<>>

ExaFields(res) ==
  IF Truthy(res.exaData)
    THEN [k \in {"financial_documents_found", "recent_news_found",
                 "tech_stack_sources"} |-> "exaData." \o k]
    ELSE <<>>

FirecrawlFields(res) ==
  IF Truthy(res.firecrawlData)
    THEN [k \in {"employee_count", "founded_year", "headquarters", "industry",
                 "revenue", "market_cap", "technologies"} |-> "firecrawlData." \o k]
    ELSE <<>>

\* The finalization pass: the enrichment fields, data_sources and success.
Finalize(res, o) ==
  [res EXCEPT
     !.enrichmentFields =
        Merge(Merge(Merge(Merge(Merge(Merge(@, SecFields(res)), TickerFields(res)),
                                SignalFields(res)), ExaFields(res)),
                    FirecrawlFields(res)),
              [k \in {"enhanced_enrichment"} |-> "true"]),
     !.dataSources =
          (IF o.includeCrustData THEN <<"crustdata">> ELSE <<>>)
       \o (IF Truthy(res.secData) THEN <<"sec">> ELSE <<>>)
       \o (IF Truthy(res.exaData) THEN <<"exa">> ELSE <<>>)
       \o (IF Truthy(res.firecrawlData) THEN <<"firecrawl">> ELSE <<>>)
       \o (IF Truthy(res.secSignals) THEN <<"sec_signals">> ELSE <<>>),
     !.success = ~Truthy(res.error)]

IdleRequest ==
  [phase |-> "idle", result |-> EmptyResult, tasks |-> <<>>,
   snapshot |-> EmptyResult,
   sem |-> Semaphore(0), tstate |-> <<>>, rel |-> <<>>,
   fetch |-> "none", timedOut |-> FALSE]

\* The synchronous part of enrichCompany: the result object, the task list,
\* the semaphore and one acquire per task.  With no task, Promise.all([])
\* is already fulfilled and the record is finalized and returned.
\* snapshot records the shared result as it was when the list was built;
\* fetch the outcome of the base-profile fetch; timedOut a timer that won.
enrichCompanyStart(o) ==
  LET tasks == BuildTasks(o, EmptyResult)
      g == StartGate(maxConcurrencyOf(o), Len(tasks))
  IN  [phase |-> IF tasks = <<>> THEN "returned" ELSE "running",
       result |-> IF tasks = <<>> THEN Finalize(EmptyResult, o) ELSE EmptyResult,
       tasks |-> tasks,
       snapshot |-> EmptyResult,
       sem |-> g.sem, tstate |-> g.tstate, rel |-> g.rel,
       fetch |-> "none", timedOut |-> FALSE]

\* Faulty variant of enrichCompanySettle: a failed base-profile fetch is
\* thrown to the caller instead of being recorded in the result.
enrichCompanySettleThrowing(q, t, out, o) ==
  LET q1 == [GateRelease(q, t, "settled") EXCEPT
               !.result = RunTask(q.tasks[t], q.result, out),
               !.fetch = IF q.tasks[t] = "crustdata" THEN out ELSE @]
  IN  IF q1.phase = "running" /\ Truthy(q1.result.error)
        THEN [q1 EXCEPT !.phase = "rejected"]
      ELSE IF q1.phase = "running" /\ \A u \in DOMAIN q1.tstate : q1.tstate[u] = "settled"
        THEN [q1 EXCEPT !.phase = "returned", !.result = Finalize(q1.result, o)]
        ELSE q1

\* Task t ends before its timer: it writes its slice, the wrapper releases,
\* and when every wrapper is fulfilled the record is finalized and returned.
enrichCompanySettle(q, t, out, o) ==
  LET q1 == [GateRelease(q, t, "settled") EXCEPT
               !.result = RunTask(q.tasks[t], q.result, out),
               !.fetch = IF q.tasks[t] = "crustdata" THEN out ELSE @]
  IN  IF q1.phase = "running" /\ \A u \in DOMAIN q1.tstate : q1.tstate[u] = "settled"
        THEN [q1 EXCEPT !.phase = "returned", !.result = Finalize(q1.result, o)]
        ELSE q1

\* Faulty variant of enrichCompanyTimeout: the timeout is swallowed and the
\* record is returned while the abandoned body is still running.
enrichCompanyTimeoutSwallowed(q, t) ==
  LET q1 == [GateRelease(q, t, "timedout") EXCEPT !.timedOut = TRUE]
  IN  IF q1.phase = "running"
         /\ \A u \in DOMAIN q1.tstate : q1.tstate[u] \in {"settled", "timedout"}
        THEN [q1 EXCEPT !.phase = "returned"]
        ELSE q1

\* The timer of task t fires first: the race rejects, finally releases and
\* the rejection goes through Promise.all to the caller of enrichCompany.
enrichCompanyTimeout(q, t) ==
  [GateRelease(q, t, "timedout") EXCEPT
     !.phase = IF @ = "running" THEN "rejected" ELSE @,
     !.timedOut = TRUE]

\* The body of an abandoned task ends after its timeout and still writes.
enrichCompanyLate(q, t, out) ==
  [q EXCEPT !.tstate = [@ EXCEPT ![t] = "late"],
            !.result = RunTask(q.tasks[t], q.result, out),
            !.fetch = IF q.tasks[t] = "crustdata" THEN out ELSE @]

(***************************************************************************)
(* enrichCompanies.                                                        *)
(***************************************************************************)
\* const concurrency = options.maxConcurrency || 3
concurrencyOf(o) ==
  IF o.maxConcurrency = {} \/ o.maxConcurrency = {0} THEN 3
  ELSE CHOOSE k \in o.maxConcurrency : TRUE

\* identifiers.slice(i, i + concurrency), as positions 1..n of the input
Batch(b) ==
  {r \in 1..b.n : b.i < r /\ r <= b.i + concurrencyOf(b.opts)}

\* Faulty variant of NeedsDelay: the comparison is off by one.
NeedsDelayOffByOne(i, c, n) == i + c <= n

\* if (i + concurrency < identifiers.length)
NeedsDelay(i, c, n) == i + c < n

\* Faulty variant of BatchSettled: Promise.race instead of Promise.all.
BatchSettledAny(b, rq) == \E r \in Batch(b) : rq[r].phase = "returned"

\* Promise.all(batchPromises) is fulfilled: every enrichment has returned.
BatchSettled(b, rq) == \A r \in Batch(b) : rq[r].phase = "returned"

RECURSIVE enrichCompaniesLoop(_, _)
RECURSIVE AwaitBatch(_, _)

\* The loop head: test i < length, start every enrichment of the batch.
enrichCompaniesLoop(b, rq) ==
  IF ~(b.i < b.n)
    THEN [bulk |-> [b EXCEPT !.phase = "done"], req |-> rq]
    ELSE AwaitBatch([b EXCEPT !.phase = "batch", !.batches = @ + 1],
                    [r \in DOMAIN rq |->
                       IF r \in Batch(b) THEN enrichCompanyStart(b.opts) ELSE rq[r]])

\* await Promise.all(batchPromises) and the rest of the loop body.
AwaitBatch(b, rq) ==
  IF \E r \in Batch(b) : rq[r].phase = "rejected"
    THEN [bulk |-> [b EXCEPT !.phase = "rejected"], req |-> rq]
  ELSE IF BatchSettled(b, rq)
    THEN LET size == Cardinality(Batch(b))
             b1 == [b EXCEPT !.results =
                      @ \o [k \in 1..size |-> [id |-> b.i + k, rec |-> rq[b.i + k].result]]]
         IN  IF NeedsDelay(b.i, concurrencyOf(b.opts), b.n)
               THEN [bulk |-> [b1 EXCEPT !.phase = "delay", !.delays = @ + 1], req |-> rq]
               ELSE enrichCompaniesLoop([b1 EXCEPT !.i = @ + concurrencyOf(b.opts)], rq)
  ELSE [bulk |-> b, req |-> rq]

\* What the bulk call sees after request r changed.
AfterRequest(r, rq) ==
  IF bulk.phase = "batch" /\ r \in Batch(bulk)
    THEN AwaitBatch(bulk, rq)
    ELSE [bulk |-> bulk, req |-> rq]

(***************************************************************************)
(* discoverTickers: one gated discoverTicker per company.  discoverTicker  *)
(* never rejects, so a gated task ends with a TickerResult or with null.   *)
(***************************************************************************)
IdleTickers ==
  [phase |-> "idle", n |-> 0, maxConcurrency |-> {},
   sem |-> Semaphore(0), tstate |-> <<>>, rel |-> <<>>, results |-> <<>>]

\* The synchronous part: the semaphore and one acquire per company.  With
\* no company, Promise.all([]) is fulfilled and the empty list is returned.
discoverTickersStart(n, mc) ==
  LET g == StartGate(maxConcurrencyOf([maxConcurrency |-> mc]), n)
  IN  [phase |-> IF n = 0 THEN "done" ELSE "running",
       n |-> n, maxConcurrency |-> mc,
       sem |-> g.sem, tstate |-> g.tstate, rel |-> g.rel, results |-> <<>>]

\* discoverTicker of company t resolves: push the entry, release.
discoverTickersSettle(k, t, found) ==
  LET k1 == [GateRelease(k, t, "settled") EXCEPT
               !.results = Append(@, [company |-> t, found |-> found])]
  IN  IF \A u \in DOMAIN k1.tstate : k1.tstate[u] = "settled"
        THEN [k1 EXCEPT !.phase = "done"]
        ELSE k1

(***************************************************************************)
(* discoverTicker: the ordered cascade of strategies.  Confidences are in  *)
(* hundredths (0.95 is 95).                                                *)
(***************************************************************************)
ConfidenceThreshold == 70

NoCandidate == [ticker |-> "", confidence |-> 0, method |-> "none"]

Candidate(ticker, confidence, method) ==
  [ticker |-> ticker, confidence |-> confidence, method |-> method]

CompanyNames == {"Boeing", "Anduril Industries", "Acme"}

\* The options of the calls explored: nothing given, and the regional
\* sweeps switched on or off together with a maxRetries.
DiscoveryOptions ==
  {[includeInternational |-> {}, maxRetries |-> {}],
   [includeInternational |-> {TRUE}, maxRetries |-> {5}],
   [includeInternational |-> {FALSE}, maxRetries |-> {1}]}

\* const { includeInternational = true } = options
includeInternationalOf(opt) == IF opt = {} THEN TRUE ELSE CHOOSE v \in opt : TRUE

\* Faulty variant of Strategies: the table lookup comes first.
StrategiesManualFirst(includeInternational) ==
     <<"manual_mapping", "google_finance", "yahoo_finance", "alpha_vantage",
       "financial_modeling_prep", "exa_search">>
  \o (IF includeInternational
        THEN <<"international_exchange", "european_exchange", "asian_exchange">>
        ELSE <<>>)
  \o <<"web_scraping">>

\* The strategies array, by the method name each strategy stamps.
Strategies(includeInternational) ==
     <<"google_finance", "yahoo_finance", "alpha_vantage",
       "financial_modeling_prep", "exa_search">>
  \o (IF includeInternational
        THEN <<"international_exchange", "european_exchange", "asian_exchange">>
        ELSE <<>>)
  \o <<"web_scraping", "manual_mapping">>

\* Faulty variant of IntrinsicConfidence: the regional sweeps stamp 0.75.
IntrinsicConfidenceRegional75(method) ==
  CASE method = "google_finance" -> 95
    [] method = "yahoo_finance" -> 90
    [] method = "alpha_vantage" -> 80
    [] method = "financial_modeling_prep" -> 85
    [] method = "exa_search" -> 75
    [] method = "international_exchange" -> 75
    [] method = "european_exchange" -> 75
    [] method = "asian_exchange" -> 75
    [] method = "web_scraping" -> 80

\* The confidence each search strategy stamps on the candidate it builds.
IntrinsicConfidence(method) ==
  CASE method = "google_finance" -> 95
    [] method = "yahoo_finance" -> 90
    [] method = "alpha_vantage" -> 80
    [] method = "financial_modeling_prep" -> 85
    [] method = "exa_search" -> 75
    [] method = "international_exchange" -> 70
    [] method = "european_exchange" -> 70
    [] method = "asian_exchange" -> 70
    [] method = "web_scraping" -> 80

\* searchManualMappings on the names of the model.
searchManualMappings(name) ==
  CASE name = "Boeing" -> Candidate("BA", 99, "manual_mapping")
    [] name = "Anduril Industries" -> Candidate("ANDU", 95, "manual_mapping")
    [] OTHER -> NoCandidate

\* What a strategy can resolve with.  A search strategy swallows its own
\* errors and answers null; its ticker comes from the search results.
StrategyResults(method, name, website) ==
  CASE method = "manual_mapping" -> {searchManualMappings(name)}
    [] method = "web_scraping" /\ ~website -> {NoCandidate}
    [] OTHER -> {NoCandidate, Candidate("TCK", IntrinsicConfidence(method), method)}

\* A strategy that awaits a search can lose the race against its timer; the
\* table lookup, and web_scraping without a website, resolve without waiting.
CanTimeOut(method, website) ==
  method # "manual_mapping" /\ ~(method = "web_scraping" /\ ~website)

\* Faulty variant of Accepts: a higher threshold.
AcceptsAbove80(c) == c # NoCandidate /\ c.confidence > 80

\* Faulty variant of Accepts: the threshold itself is accepted.
AcceptsAtThreshold(c) == c # NoCandidate /\ c.confidence >= ConfidenceThreshold

\* if (result && result.confidence > 0.7)
Accepts(c) == c # NoCandidate /\ c.confidence > ConfidenceThreshold

\* const { maxRetries = 3 } = options
DefaultMaxRetries == 3

maxRetriesOf(opt) == IF opt = {} THEN DefaultMaxRetries ELSE CHOOSE v \in opt : TRUE

\* log holds one entry per strategy invocation that has ended for the loop;
\* late holds what the bodies abandoned by their timers resolved with.
IdleDiscovery ==
  [phase |-> "idle", name |-> "Acme", website |-> FALSE, maxRetries |-> {},
   strategies |-> <<>>, i |-> 0, log |-> <<>>, late |-> {},
   result |-> NoCandidate]

\* The call up to the first await: strategy 1 is running.  maxRetries is
\* destructured from the options and not read again.
discoverTickerStart(name, website, opt, retries) ==
  [phase |-> "running", name |-> name, website |-> website,
   maxRetries |-> retries,
   strategies |-> Strategies(includeInternationalOf(opt)),
   i |-> 1, log |-> <<>>, late |-> {}, result |-> NoCandidate]

\* The loop moves on: the next strategy starts, or null is returned.
discoverTickerContinue(d) ==
  IF d.i < Len(d.strategies)
    THEN [d EXCEPT !.i = @ + 1]
    ELSE [d EXCEPT !.phase = "done", !.result = NoCandidate]

\* Strategy i resolves with c inside its time box.
discoverTickerSettle(d, c) ==
  LET d1 == [d EXCEPT !.log = Append(@, [kind |-> "settled", cand |-> c])]
  IN  IF Accepts(c)
        THEN [d1 EXCEPT !.phase = "done", !.result = c]
        ELSE discoverTickerContinue(d1)

\* Faulty variant of discoverTickerTimeout: the strategy is tried again
\* when maxRetries allows a second attempt.
discoverTickerTimeoutRetries(d) ==
  LET d1 == [d EXCEPT !.log = Append(@, [kind |-> "timeout", cand |-> NoCandidate])]
  IN  IF maxRetriesOf(d.maxRetries) > 1 /\ Len(d.log) = d.i - 1
        THEN d1
        ELSE discoverTickerContinue(d1)

\* Faulty variant of discoverTickerTimeout: the rejection is not caught.
discoverTickerTimeoutUncaught(d) ==
  [d EXCEPT !.phase = "rejected",
            !.log = Append(@, [kind |-> "timeout", cand |-> NoCandidate])]

\* The timer of strategy i fires first: caught, logged, continue.
discoverTickerTimeout(d) ==
  discoverTickerContinue(
    [d EXCEPT !.log = Append(@, [kind |-> "timeout", cand |-> NoCandidate])])

\* The strategies whose timer has fired and whose body is still pending.
Abandoned(d) ==
  {j \in 1..Len(d.log) :
     d.log[j].kind = "timeout" /\ \A l \in d.late : l.at # j}

\* Faulty variant of discoverTickerLate: a late candidate above the
\* threshold becomes the value of the call.
discoverTickerLateAdopted(d, j, c) ==
  [d EXCEPT !.late = @ \cup {[at |-> j, cand |-> c]},
            !.result = IF Accepts(c) THEN c ELSE @,
            !.phase = IF Accepts(c) THEN "done" ELSE @]

\* The body of strategy j, abandoned by Promise.race, resolves with c: the
\* race is settled already, nothing reads the value.
discoverTickerLate(d, j, c) ==
  [d EXCEPT !.late = @ \cup {[at |-> j, cand |-> c]}]

(***************************************************************************)
(* JavaScript string operations used by SECEdgarClient.  A string is a     *)
(* sequence of one-character strings.                                      *)
(***************************************************************************)
CharAt(s, i) == SubSeq(s, i, i)

Tail1(s) == SubSeq(s, 2, Len(s))

UpperCaseLetters == "ABCDEFGHIJKLMNOPQRSTUVWXYZ"
LowerCaseLetters == "abcdefghijklmnopqrstuvwxyz"
Digits == "0123456789"

CharsOf(s) == {CharAt(s, k) : k \in 1..Len(s)}

\* \s of the regular expressions and of trim(), on the characters used here
SpaceChars == CharsOf(" \t")

IsSpace(c) == c \in SpaceChars

\* \w of the regular expressions
WordChars == CharsOf(LowerCaseLetters \o UpperCaseLetters \o Digits \o "_")

IsWordChar(c) == c \in WordChars

\* [&.,'"()\-] of normalizeCompanyName
PunctuationChars == CharsOf("&.,'\"()-")

LowerOf ==
  [c \in CharsOf(UpperCaseLetters) |->
     CharAt(LowerCaseLetters,
            CHOOSE k \in 1..Len(UpperCaseLetters) : CharAt(UpperCaseLetters, k) = c)]

toLowerCaseChar(c) == IF c \in DOMAIN LowerOf THEN LowerOf[c] ELSE c

RECURSIVE toLowerCase(_)
toLowerCase(s) ==
  IF Len(s) = 0 THEN ""
  ELSE toLowerCaseChar(CharAt(s, 1)) \o toLowerCase(Tail1(s))

RECURSIVE trimStart(_)
trimStart(s) ==
  IF Len(s) > 0 /\ IsSpace(CharAt(s, 1)) THEN trimStart(Tail1(s)) ELSE s

RECURSIVE trimEnd(_)
trimEnd(s) ==
  IF Len(s) > 0 /\ IsSpace(CharAt(s, Len(s)))
    THEN trimEnd(SubSeq(s, 1, Len(s) - 1))
    ELSE s

trim(s) == trimEnd(trimStart(s))

\* s.startsWith(p)
StartsWith(s, p) == Len(s) >= Len(p) /\ SubSeq(s, 1, Len(p)) = p

\* s.includes(k)
Includes(s, k) ==
  \E i \in 1..(Len(s) - Len(k) + 1) : SubSeq(s, i, i + Len(k) - 1) = k

\* s.replace(/^p/, '')
StripPrefix(s, p) == IF StartsWith(s, p) THEN SubSeq(s, Len(p) + 1, Len(s)) ELSE s

\* s.split('/')[0]
RECURSIVE UpToSlash(_)
UpToSlash(s) ==
  IF Len(s) = 0 \/ CharAt(s, 1) = "/" THEN ""
  ELSE CharAt(s, 1) \o UpToSlash(Tail1(s))

\* s.replace(/[&.,'"()\-]/g, ' ')
RECURSIVE replacePunctuation(_)
replacePunctuation(s) ==
  IF Len(s) = 0 THEN ""
  ELSE (IF CharAt(s, 1) \in PunctuationChars THEN " " ELSE CharAt(s, 1))
       \o replacePunctuation(Tail1(s))

\* The length of the run of word characters that starts s.
RECURSIVE WordRun(_)
WordRun(s) ==
  IF Len(s) > 0 /\ IsWordChar(CharAt(s, 1)) THEN 1 + WordRun(Tail1(s)) ELSE 0

\* s.replace(/\b(w1|w2|...)\b/g, ''): every maximal run of word characters
\* that is one of the words is deleted; s is read from a word boundary.
RECURSIVE removeWords(_, _)
removeWords(s, words) ==
  IF Len(s) = 0 THEN ""
  ELSE LET n == WordRun(s)
       IN  IF n = 0
             THEN CharAt(s, 1) \o removeWords(Tail1(s), words)
             ELSE (IF SubSeq(s, 1, n) \in words THEN "" ELSE SubSeq(s, 1, n))
                  \o removeWords(SubSeq(s, n + 1, Len(s)), words)

\* s.replace(/\s+/g, ' ')
RECURSIVE collapseWhitespace(_)
collapseWhitespace(s) ==
  IF Len(s) = 0 THEN ""
  ELSE IF IsSpace(CharAt(s, 1))
         THEN " " \o collapseWhitespace(trimStart(s))
         ELSE CharAt(s, 1) \o collapseWhitespace(Tail1(s))

\* The length of the run of non-blank characters that starts s.
RECURSIVE TokenRun(_)
TokenRun(s) ==
  IF Len(s) > 0 /\ CharAt(s, 1) # " " THEN 1 + TokenRun(Tail1(s)) ELSE 0

\* new Set(s.split(' ').filter(Boolean))
RECURSIVE tokenSet(_)
tokenSet(s) ==
  IF Len(s) = 0 THEN {}
  ELSE LET n == TokenRun(s)
       IN  IF n = 0 THEN tokenSet(Tail1(s))
           ELSE {SubSeq(s, 1, n)} \cup tokenSet(SubSeq(s, n + 1, Len(s)))

\* String(n).padStart(width, '0')
RECURSIVE padStart(_, _)
padStart(s, width) == IF Len(s) >= width THEN s ELSE padStart("0" \o s, width)

\* s.replace(/^0+/, '')
RECURSIVE stripLeadingZeros(_)
stripLeadingZeros(s) ==
  IF Len(s) > 0 /\ CharAt(s, 1) = "0" THEN stripLeadingZeros(Tail1(s)) ELSE s

(***************************************************************************)
(* SECEdgarClient: company identification.  A confidence is in hundredths, *)
(* a similarity score is the fraction num/den, a missing field is Null.    *)
(***************************************************************************)
\* The alternatives s\.a\. and s\.a of the expression can never match: the
\* dots were replaced by blanks one step earlier.
CorporateSuffixes ==
  {"incorporated", "inc", "corp", "corporation", "ltd", "limited", "plc",
   "group", "holdings", "co", "company", "sa", "ag", "nv", "se", "ab"}

IndustryWords ==
  {"operations", "international", "aerospace", "defense", "systems",
   "technologies", "solutions", "services", "manufacturing", "aviation",
   "space", "military"}

normalizeCompanyName(name) ==
  trim(collapseWhitespace(
    removeWords(
      removeWords(replacePunctuation(trim(toLowerCase(name))), CorporateSuffixes),
      IndustryWords)))

\* `${cikNumber}`.replace(/^0+/, '').padStart(10, '0')
PadWidth == 10

\* Faulty variant of zeroPadCIK: the zeros are appended.
RECURSIVE zeroPadCIKPadEnd(_)
zeroPadCIKPadEnd(cik) ==
  IF Len(stripLeadingZeros(cik)) >= PadWidth THEN stripLeadingZeros(cik)
  ELSE zeroPadCIKPadEnd(stripLeadingZeros(cik) \o "0")

zeroPadCIK(cik) == padStart(stripLeadingZeros(cik), PadWidth)

\* intersectionSize / (unionSize || 1)
jaccardSimilarity(a, b) ==
  [num |-> Cardinality({x \in a : x \in b}),
   den |-> IF Cardinality(a \cup b) = 0 THEN 1 ELSE Cardinality(a \cup b)]

MatchThreshold == 80

\* Faulty variant of MeetsThreshold: 0.70 is enough.
MeetsThresholdAt70(score) == 100 * score.num >= 70 * score.den

\* score >= 0.8
MeetsThreshold(score) == 100 * score.num >= MatchThreshold * score.den

\* Faulty variant of Greater: an equal score replaces the best so far.
GreaterOrEqual(s1, s2) == s1.num * s2.den >= s2.num * s1.den

\* score > best.score
Greater(s1, s2) == s1.num * s2.den > s2.num * s1.den

\* Number(score.toFixed(2)), in hundredths: round to nearest, half up
toFixed2(score) == (200 * score.num + score.den) \div (2 * score.den)

\* The loop of findCompanyMatch from entry k on; best is <<>> for null.
\* An entry without a title makes normalizeCompanyName throw a TypeError.
RECURSIVE findCompanyMatchLoop(_, _, _, _)
findCompanyMatchLoop(targetTokens, directory, k, best) ==
  IF k > Len(directory) THEN [threw |-> FALSE, best |-> best]
  ELSE IF directory[k].title = Null THEN [threw |-> TRUE, best |-> <<>>]
  ELSE LET score == jaccardSimilarity(
                      targetTokens,
                      tokenSet(normalizeCompanyName(directory[k].title)))
           better == /\ MeetsThreshold(score)
                     /\ (best = <<>> \/ Greater(score, best[1].score))
       IN  findCompanyMatchLoop(
             targetTokens, directory, k + 1,
             IF better THEN <<[entry |-> directory[k], score |-> score]>>
                       ELSE best)

findCompanyMatch(companyName, directory) ==
  findCompanyMatchLoop(tokenSet(normalizeCompanyName(companyName)),
                       directory, 1, <<>>)

\* obj[key] on an object literal or on the outcome of JSON.parse: an own
\* property, else a property inherited from Object.prototype, else undefined.
InheritedProperties == {"constructor"}

Lookup(table, key) ==
  IF key \in DOMAIN table THEN table[key]
  ELSE IF key \in InheritedProperties THEN "[Function: Object]"
  ELSE Null

StripScheme(s) ==
  IF StartsWith(s, "https://") THEN StripPrefix(s, "https://")
  ELSE StripPrefix(s, "http://")

\* (website || '').toLowerCase().replace(/^https?:\/\//, '')
\*    .replace(/^www\./, '').split('/')[0]
normalizeDomain(website) ==
  UpToSlash(StripPrefix(StripScheme(toLowerCase(website)), "www."))

NotPublic ==
  [isPublic |-> FALSE, confidence |-> 0, matchedTitle |-> Null,
   ticker |-> Null, cik |-> Null, source |-> Null]

OverrideMatch(companyName, ticker) ==
  [isPublic |-> TRUE, confidence |-> 100, matchedTitle |-> companyName,
   ticker |-> ticker, cik |-> Null, source |-> "overrides"]

\* Faulty variant of DirectoryMatch: the match is not flagged public.
DirectoryMatchUnflagged(m) ==
  [isPublic |-> FALSE, confidence |-> toFixed2(m.score),
   matchedTitle |-> m.entry.title, ticker |-> m.entry.ticker,
   cik |-> zeroPadCIK(m.entry.cik_str), source |-> "sec_directory"]

DirectoryMatch(m) ==
  [isPublic |-> TRUE, confidence |-> toFixed2(m.score),
   matchedTitle |-> m.entry.title, ticker |-> m.entry.ticker,
   cik |-> zeroPadCIK(m.entry.cik_str), source |-> "sec_directory"]

\* overridesByDomain and overridesByName when no config file exists
NoOverrides == [byDomain |-> <<>>, byName |-> <<>>]

IdleIdentify ==
  [phase |-> "idle", name |-> "", website |-> "", overrides |-> NoOverrides,
   consulted |-> <<>>, directory |-> <<>>, failure |-> "none",
   result |-> NotPublic]

\* Faulty variant of identifyPublicCompanyCatch: the error is rethrown.
identifyPublicCompanyCatchRethrow(s) == [s EXCEPT !.phase = "rejected"]

\* catch (err) { return { isPublic: false, confidence: 0 } }
identifyPublicCompanyCatch(s) == [s EXCEPT !.phase = "done", !.result = NotPublic]

\* The rest of the try block once loadTickerDirectory has resolved.
identifyPublicCompanyMatch(s, directory) ==
  LET m == findCompanyMatch(s.name, directory)
      s1 == [s EXCEPT !.directory = directory]
  IN  IF m.threw
        THEN identifyPublicCompanyCatch([s1 EXCEPT !.failure = "malformed"])
      ELSE IF m.best # <<>>
        THEN [s1 EXCEPT !.phase = "done", !.result = DirectoryMatch(m.best[1])]
      ELSE [s1 EXCEPT !.phase = "done", !.result = NotPublic]

\* Faulty variant of identifyPublicCompanyStart: the name table comes first.
identifyPublicCompanyStartNameFirst(name, website, ov, cache, cached) ==
  LET domain == normalizeDomain(website)
      normalizedName == normalizeCompanyName(name)
      s == [IdleIdentify EXCEPT !.phase = "loading", !.name = name,
                                !.website = website, !.overrides = ov]
      c1 == IF normalizedName # "" THEN <<"name">> ELSE <<>>
      c2 == IF domain # "" THEN <<"domain">> ELSE <<>>
      s3 == [s EXCEPT !.consulted = c1 \o c2 \o <<"directory">>]
  IN  IF normalizedName # "" /\ Truthy(Lookup(ov.byName, normalizedName))
        THEN [s EXCEPT !.phase = "done", !.consulted = c1,
                       !.result = OverrideMatch(name, Lookup(ov.byName, normalizedName))]
      ELSE IF domain # "" /\ Truthy(Lookup(ov.byDomain, domain))
        THEN [s EXCEPT !.phase = "done", !.consulted = c1 \o c2,
                       !.result = OverrideMatch(name, Lookup(ov.byDomain, domain))]
      ELSE IF cache = "valid" THEN identifyPublicCompanyMatch(s3, cached)
      ELSE s3

\* identifyPublicCompany up to the point where it has to wait: an override
\* hit returns; otherwise the directory is loaded, from the cache file when
\* it exists and parses (no waiting), else by a fetch.
identifyPublicCompanyStart(name, website, ov, cache, cached) ==
  LET domain == normalizeDomain(website)
      normalizedName == normalizeCompanyName(name)
      s == [IdleIdentify EXCEPT !.phase = "loading", !.name = name,
                                !.website = website, !.overrides = ov]
      c1 == IF domain # "" THEN <<"domain">> ELSE <<>>
      c2 == IF normalizedName # "" THEN <<"name">> ELSE <<>>
      s3 == [s EXCEPT !.consulted = c1 \o c2 \o <<"directory">>]
  IN  IF domain # "" /\ Truthy(Lookup(ov.byDomain, domain))
        THEN [s EXCEPT !.phase = "done", !.consulted = c1,
                       !.result = OverrideMatch(name, Lookup(ov.byDomain, domain))]
      ELSE IF normalizedName # "" /\ Truthy(Lookup(ov.byName, normalizedName))
        THEN [s EXCEPT !.phase = "done", !.consulted = c1 \o c2,
                       !.result = OverrideMatch(name, Lookup(ov.byName, normalizedName))]
      ELSE IF cache = "valid" THEN identifyPublicCompanyMatch(s3, cached)
      ELSE s3

\* The fetch of the directory failed (network error or a status not ok).
identifyPublicCompanyFetchFailed(s) ==
  identifyPublicCompanyCatch([s EXCEPT !.failure = "fetch"])

(***************************************************************************)
(* SECEdgarClient: submissions lookup and filing classification.           *)
(***************************************************************************)
StockForms == {"3", "4", "5", "144", "3/A", "4/A", "5/A", "144/A"}

StockKeywords ==
  {"stock purchase", "stock sale", "share purchase", "share sale",
   "insider trading", "beneficial ownership", "ownership change",
   "acquisition of securities", "disposition of securities",
   "form 3", "form 4", "form 5", "form 144"}

\* Faulty variant of isStockTransactionFiling: the case is not folded.
isStockTransactionFilingCaseSensitive(form, description) ==
  \/ form \in StockForms
  \/ \E keyword \in StockKeywords : Includes(description, keyword)

isStockTransactionFiling(form, description) ==
  \/ form \in StockForms
  \/ \E keyword \in StockKeywords : Includes(toLowerCase(description), keyword)

DefaultMaxCount == 50

\* maxCount: number = 50
maxCountOf(mc) == IF mc = {} THEN DefaultMaxCount ELSE CHOOSE k \in mc : TRUE

\* The loop of listAllFilings from raw filing i on; the description of a
\* filing is its primaryDocument.  A filing whose primaryDocument is missing
\* makes description.toLowerCase() throw a TypeError, which nothing catches.
RECURSIVE listAllFilingsLoop(_, _, _, _)
listAllFilingsLoop(filings, i, maxCount, out) ==
  IF i <= Len(filings) /\ Len(out) < maxCount
    THEN IF filings[i].primaryDocument = Null
           THEN [threw |-> TRUE, out |-> <<>>]
           ELSE listAllFilingsLoop(
                  filings, i + 1, maxCount,
                  Append(out,
                    [form |-> filings[i].form,
                     primaryDocument |-> filings[i].primaryDocument,
                     description |-> filings[i].primaryDocument,
                     isExcluded |-> isStockTransactionFiling(
                                      filings[i].form, filings[i].primaryDocument)]))
    ELSE [threw |-> FALSE, out |-> out]

NoSubmissions == [hasRecent |-> FALSE, filings |-> <<>>]

IdleEdgar ==
  [phase |-> "idle", cik |-> "", cikPadded |-> "", maxCount |-> {},
   submissions |-> NoSubmissions, out |-> <<>>]

\* getCompanySubmissions up to the fetch: the request names the padded cik.
getCompanySubmissionsStart(cik) ==
  [IdleEdgar EXCEPT !.phase = "fetching", !.cik = cik,
                    !.cikPadded = zeroPadCIK(cik)]

\* listAllFilings up to the fetch of the submissions.
listAllFilingsStart(cik, mc) ==
  [getCompanySubmissionsStart(cik) EXCEPT !.maxCount = mc]

\* The submissions arrived: getCompanySubmissions resolves with them.
getCompanySubmissionsFetched(e, submissions) ==
  [e EXCEPT !.phase = "done", !.submissions = submissions]

\* The submissions arrived: listAllFilings classifies up to maxCount filings
\* (none when filings.recent is missing).
listAllFilingsFetched(e, submissions) ==
  LET l == IF submissions.hasRecent
             THEN listAllFilingsLoop(submissions.filings, 1,
                                     maxCountOf(e.maxCount), <<>>)
             ELSE [threw |-> FALSE, out |-> <<>>]
  IN  [e EXCEPT !.phase = IF l.threw THEN "rejected" ELSE "done",
                !.submissions = submissions,
                !.out = l.out]

\* fetchJSON throws: neither method catches.
getCompanySubmissionsFailed(e) == [e EXCEPT !.phase = "rejected"]

(***************************************************************************)
(* SECEdgarClient.downloadAllFilings.                                      *)
(* requested lists the items (by position) downloadFiling was called for,  *)
(* outputs those that were pushed to the outputs, failed those whose       *)
(* download threw, delays counts the 100 ms pauses.                        *)
(***************************************************************************)
IdleDownload ==
  [phase |-> "idle", items |-> <<>>, i |-> 0, requested |-> <<>>,
   outputs |-> <<>>, failed |-> <<>>, delays |-> 0]

\* Faulty variant of downloadAllFilingsLoop: excluded items are not skipped.
downloadAllFilingsLoopNoSkip(d, i) ==
  IF i > Len(d.items) THEN [d EXCEPT !.phase = "done", !.i = i]
  ELSE [d EXCEPT !.phase = "downloading", !.i = i, !.requested = Append(@, i)]

\* The for loop from item i on, up to its next await: excluded items are
\* skipped, downloadFiling is called for the first item that is not.
RECURSIVE downloadAllFilingsLoop(_, _)
downloadAllFilingsLoop(d, i) ==
  IF i > Len(d.items) THEN [d EXCEPT !.phase = "done", !.i = i]
  ELSE IF d.items[i].isExcluded THEN downloadAllFilingsLoop(d, i + 1)
  ELSE [d EXCEPT !.phase = "downloading", !.i = i, !.requested = Append(@, i)]

\* downloadAllFilings up to the await of listAllFilings.
downloadAllFilingsStart == [IdleDownload EXCEPT !.phase = "listing"]

\* listAllFilings settled as e: its rejection is not caught, its list is
\* iterated.
downloadAllFilingsListed(d, e) ==
  IF e.phase = "rejected" THEN [d EXCEPT !.phase = "rejected"]
  ELSE downloadAllFilingsLoop([d EXCEPT !.items = e.out], 1)

\* downloadFiling resolved: the item is pushed, and a delay follows unless
\* the outputs are as many as the items.
downloadFilingDone(d) ==
  LET d1 == [d EXCEPT !.outputs = Append(@, d.i)]
  IN  IF Len(d1.outputs) < Len(d1.items)
        THEN [d1 EXCEPT !.phase = "delay", !.delays = @ + 1]
        ELSE downloadAllFilingsLoop(d1, d1.i + 1)

\* Faulty variant of downloadFilingFailed: the failure ends the loop.
downloadFilingFailedStops(d) ==
  [d EXCEPT !.failed = Append(@, d.i), !.phase = "done"]

\* downloadFiling rejected: catch, continue.
downloadFilingFailed(d) ==
  downloadAllFilingsLoop([d EXCEPT !.failed = Append(@, d.i)], d.i + 1)

\* The 100 ms pause is over: next iteration.
downloadDelayElapsed(d) == downloadAllFilingsLoop(d, d.i + 1)

\* The filings the SEC task stores in result.secData: the mapping reads
\* f.content, a field listAllFilings never sets.  The mapping drops the
\* isExcluded flag; it is kept here to tell which filing a document was.
secDataFilings(filings) ==
  [i \in 1..Len(filings) |->
     [form |-> filings[i].form, isExcluded |-> filings[i].isExcluded,
      content |-> Null]]

\* The documents the signals task hands to extractSignals:
\* result.secData.filings.filter(f => f.content)
RECURSIVE signalDocuments(_)
signalDocuments(filings) ==
  IF filings = <<>> THEN <<>>
  ELSE (IF Truthy(Head(filings).content) THEN <<Head(filings)>> ELSE <<>>)
       \o signalDocuments(Tail(filings))

(***************************************************************************)
(* CrustDataClient.enrichCompany and the service method that wraps it.     *)
(* lookups lists the lookups attempted ("domain" for getCompany, "name"    *)
(* for getCompanyByName), failed those that threw, pending whether a       *)
(* request is in flight, outcome what the service method answers.          *)
(***************************************************************************)
IdleCrust ==
  [phase |-> "idle", identifier |-> "", isDomain |-> TRUE,
   lookups |-> <<>>, failed |-> <<>>, pending |-> FALSE, outcome |-> "none"]

\* The service's catch: success=false with the error message.
serviceFailed(c) == [c EXCEPT !.phase = "done", !.pending = FALSE, !.outcome = "error"]

\* getCompanyByName as the fallback of a failed domain lookup; it throws at
\* once on an empty name, and then both lookups have failed.
clientFallback(c) ==
  LET c1 == [c EXCEPT !.lookups = Append(@, "name")]
  IN  IF c1.identifier = ""
        THEN serviceFailed([c1 EXCEPT !.failed = Append(@, "name")])
        ELSE [c1 EXCEPT !.pending = TRUE]

\* Faulty variant of clientLookupThrew: no fallback after a failed lookup.
clientLookupThrewNoFallback(c) ==
  serviceFailed([c EXCEPT !.failed = Append(@, c.lookups[Len(c.lookups)])])

\* The catch blocks of enrichCompany: the lookup in progress threw.
clientLookupThrew(c) ==
  LET c1 == [c EXCEPT !.failed = Append(@, c.lookups[Len(c.lookups)]),
                      !.pending = FALSE]
  IN  IF c1.isDomain /\ Len(c1.lookups) = 1 THEN clientFallback(c1)
      ELSE serviceFailed(c1)

\* enrichCompany(identifier, isDomain) up to its first await on a request;
\* getCompany and getCompanyByName throw at once on an empty argument.
clientEnrichCompanyStart(identifier, isDomain) ==
  LET c == [IdleCrust EXCEPT !.phase = "running", !.identifier = identifier,
                             !.isDomain = isDomain,
                             !.lookups = <<IF isDomain THEN "domain" ELSE "name">>]
  IN  IF identifier = "" THEN clientLookupThrew(c)
      ELSE [c EXCEPT !.pending = TRUE]

\* The request in flight is answered: the service returns result.data,
\* which may be missing.
clientLookupAnswered(c, hasData) ==
  [c EXCEPT !.phase = "done", !.pending = FALSE,
            !.outcome = IF hasData THEN "ok" ELSE "nodata"]

(***************************************************************************)
(* SECSignalsExtractor.extractSignals: normalizeSignals and                *)
(* calculateTotalSignals on the parsed analysis response.  A value of the  *)
(* parsed JSON is missing, an array or a string.                           *)
(***************************************************************************)
Categories ==
  <<"projectsPrograms", "technologySignals", "businessChallenges",
    "strategicPriorities", "organizationalChanges", "timingUrgency">>

Scores ==
  {"financialHealthScore", "technologyReadinessScore", "urgencyScore",
   "opportunityScore"}

JAbsent == [type |-> "undefined", items |-> <<>>, text |-> ""]

JArray(items) == [type |-> "array", items |-> items, text |-> ""]

JString(text) == [type |-> "string", items |-> <<>>, text |-> text]

isArray(v) == v.type = "array"

\* if (v): an array is truthy also when empty, a string when not empty
TruthyValue(v) == v.type = "array" \/ (v.type = "string" /\ v.text # "")

\* v.length
lengthOf(v) == IF v.type = "array" THEN Len(v.items) ELSE Len(v.text)

\* if (parsed.X) total += parsed.X.length, for the six categories from k on
RECURSIVE calculateTotalSignalsFrom(_, _)
calculateTotalSignalsFrom(parsed, k) ==
  IF k > Len(Categories) THEN 0
  ELSE (IF TruthyValue(parsed.lists[Categories[k]])
          THEN lengthOf(parsed.lists[Categories[k]]) ELSE 0)
       + calculateTotalSignalsFrom(parsed, k + 1)

calculateTotalSignals(parsed) == calculateTotalSignalsFrom(parsed, 1)

\* parsed.summary?.score || 0; summary is {} when missing, a score too.
scoreOf(parsed, score) ==
  IF parsed.summary = {} THEN 0
  ELSE LET summary == CHOOSE x \in parsed.summary : TRUE
       IN  IF summary[score] = {} THEN 0 ELSE CHOOSE n \in summary[score] : TRUE

normalizeSignals(parsed) ==
  [lists |-> [c \in SeqRange(Categories) |->
                IF isArray(parsed.lists[c]) THEN parsed.lists[c].items ELSE <<>>],
   summary |-> [s \in Scores |-> scoreOf(parsed, s)]
               @@ [s \in {"totalSignals"} |-> calculateTotalSignals(parsed)]]

NoSignals ==
  [lists |-> [c \in SeqRange(Categories) |-> <<>>],
   summary |-> [s \in Scores \cup {"totalSignals"} |-> 0]]

NoParsed == [lists |-> [c \in SeqRange(Categories) |-> JAbsent], summary |-> {}]

IdleSignals == [phase |-> "idle", parsed |-> NoParsed, signals |-> NoSignals]

\* extractSignals up to the await of the completion request
extractSignalsStart == [IdleSignals EXCEPT !.phase = "waiting"]

\* The response held a JSON object: it is parsed and normalized.
extractSignalsParsed(s, parsed) ==
  [s EXCEPT !.phase = "done", !.parsed = parsed, !.signals = normalizeSignals(parsed)]

\* The request failed, or the response had no content or no JSON object: the
\* error is rethrown as 'SEC signals extraction failed: ...'.
extractSignalsFailed(s) == [s EXCEPT !.phase = "rejected"]

(***************************************************************************)
(* FirecrawlScraper.scrapeUrl: the retry loop around app.scrapeUrl.        *)
(***************************************************************************)
\* this.maxRetries = options.maxRetries || 3
ScraperDefaultMaxRetries == 3

\* this.retryDelay = options.retryDelay || 1000
ScraperDefaultRetryDelay == 1000

\* a || b on an optional number: absent and 0 are falsy
OptionOr(opt, default) ==
  IF opt = {} THEN default
  ELSE LET v == CHOOSE x \in opt : TRUE IN IF v = 0 THEN default ELSE v

NoDataError == "No data returned from Firecrawl"

\* The message of the error app.scrapeUrl throws in the model.
ThrownMessage == "Request failed"

FailedAfter(n, message) ==
  "Failed after " \o ToString(n) \o " attempts: " \o message

\* attempt is the loop variable; outcomes holds what each attempt did
\* ("data", "nodata", "threw") and delays the arguments of this.delay.
IdleScrape ==
  [phase |-> "idle", maxRetries |-> ScraperDefaultMaxRetries,
   retryDelay |-> ScraperDefaultRetryDelay, attempt |-> 0,
   outcomes |-> <<>>, delays |-> <<>>, success |-> FALSE, error |-> ""]

\* The constructor and scrapeUrl up to the first await of app.scrapeUrl.
scrapeUrlStart(maxRetriesOpt, retryDelayOpt) ==
  LET m == OptionOr(maxRetriesOpt, ScraperDefaultMaxRetries)
  IN  [IdleScrape EXCEPT
         !.phase = IF 0 < m THEN "attempting" ELSE "done",
         !.maxRetries = m,
         !.retryDelay = OptionOr(retryDelayOpt, ScraperDefaultRetryDelay)]

\* app.scrapeUrl resolves: the result is filled in, break.
scrapeUrlAnswered(s, hasData) ==
  [s EXCEPT !.phase = "done",
            !.outcomes = Append(@, IF hasData THEN "data" ELSE "nodata"),
            !.success = hasData,
            !.error = IF hasData THEN @ ELSE NoDataError]

\* Faulty variant of scrapeUrlThrew: every wait is retryDelay long.
scrapeUrlThrewFlatDelay(s) ==
  LET s1 == [s EXCEPT !.outcomes = Append(@, "threw")]
  IN  IF s.attempt = s.maxRetries - 1
        THEN [s1 EXCEPT !.phase = "done", !.attempt = @ + 1,
                        !.error = FailedAfter(s.maxRetries, ThrownMessage)]
        ELSE [s1 EXCEPT !.phase = "waiting",
                        !.delays = Append(@, s.retryDelay)]

\* The try block throws: the catch sets the error after the last attempt
\* (the loop then ends), or warns and waits retryDelay * (attempt + 1).
scrapeUrlThrew(s) ==
  LET s1 == [s EXCEPT !.outcomes = Append(@, "threw")]
  IN  IF s.attempt = s.maxRetries - 1
        THEN [s1 EXCEPT !.phase = "done", !.attempt = @ + 1,
                        !.error = FailedAfter(s.maxRetries, ThrownMessage)]
        ELSE [s1 EXCEPT !.phase = "waiting",
                        !.delays = Append(@, s.retryDelay * (s.attempt + 1))]

\* The wait is over: attempt++, the loop condition, the next attempt.
scrapeUrlDelayElapsed(s) ==
  [s EXCEPT !.attempt = @ + 1,
            !.phase = IF s.attempt + 1 < s.maxRetries THEN "attempting" ELSE "done"]

(***************************************************************************)
(* TickerDiscoveryService.extractTickerFromContent: the pattern list and   *)
(* String.prototype.match.                                                 *)
(***************************************************************************)
UpperOf ==
  [c \in CharsOf(LowerCaseLetters) |->
     CharAt(UpperCaseLetters,
            CHOOSE k \in 1..Len(LowerCaseLetters) : CharAt(LowerCaseLetters, k) = c)]

RECURSIVE toUpperCase(_)
toUpperCase(s) ==
  IF Len(s) = 0 THEN ""
  ELSE (IF CharAt(s, 1) \in DOMAIN UpperOf THEN UpperOf[CharAt(s, 1)]
        ELSE CharAt(s, 1)) \o toUpperCase(Tail1(s))

UpperChars == CharsOf(UpperCaseLetters)

LetterChars == CharsOf(UpperCaseLetters \o LowerCaseLetters)

\* [:\s]
SeparatorChars == SpaceChars \cup {":"}

\* The number of consecutive characters of class from position i on.
RECURSIVE RunLength(_, _, _)
RunLength(s, i, class) ==
  IF i <= Len(s) /\ CharAt(s, i) \in class
    THEN 1 + RunLength(s, i + 1, class)
    ELSE 0

\* The five keyword patterns, in the order of the array.
KeywordPatterns == <<"ticker", "symbol", "stock", "nyse", "nasdaq">>

\* /keyword[:\s]+([A-Z]{1,5})/i tried at position i: the capture, or Null.
\* The separators are taken greedily; when no letter follows them no
\* shorter run of separators is followed by one either.
KeywordCaptureAt(s, keyword, i) ==
  LET j == i + Len(keyword)
      k == RunLength(s, j, SeparatorChars)
      n == RunLength(s, j + k, LetterChars)
  IN  IF /\ j - 1 <= Len(s)
         /\ toLowerCase(SubSeq(s, i, j - 1)) = keyword
         /\ k >= 1 /\ n >= 1
        THEN SubSeq(s, j + k, j + k + (IF n < 5 THEN n ELSE 5) - 1)
        ELSE Null

\* content.match(/keyword[:\s]+([A-Z]{1,5})/i)[1]: the leftmost match
RECURSIVE KeywordCapture(_, _, _)
KeywordCapture(s, keyword, i) ==
  IF i > Len(s) THEN Null
  ELSE IF KeywordCaptureAt(s, keyword, i) # Null
    THEN KeywordCaptureAt(s, keyword, i)
    ELSE KeywordCapture(s, keyword, i + 1)

\* content.match(/\(([A-Z]{1,5})\)/g): with the g flag the array holds the
\* matched substrings, parentheses included, and no capture group.
RECURSIVE ParentheticalMatches(_, _)
ParentheticalMatches(s, i) ==
  IF i > Len(s) THEN <<>>
  ELSE LET n == RunLength(s, i + 1, UpperChars)
       IN  IF /\ CharAt(s, i) = "(" /\ n \in 1..5
              /\ i + n + 1 <= Len(s) /\ CharAt(s, i + n + 1) = ")"
             THEN <<SubSeq(s, i, i + n + 1)>> \o ParentheticalMatches(s, i + n + 2)
             ELSE ParentheticalMatches(s, i + 1)

\* match[1] of the pattern at position p of the array (undefined is Null).
MatchOne(content, p) ==
  IF p <= Len(KeywordPatterns)
    THEN KeywordCapture(content, KeywordPatterns[p], 1)
    ELSE LET all == ParentheticalMatches(content, 1)
         IN  IF Len(all) >= 2 THEN all[2] ELSE Null

\* The loop over the patterns from position p on.
RECURSIVE extractTickerFrom(_, _)
extractTickerFrom(content, p) ==
  IF p > Len(KeywordPatterns) + 1 THEN Null
  ELSE LET m == MatchOne(content, p)
       IN  IF Truthy(m) /\ Len(m) <= 5
             THEN toUpperCase(m)
             ELSE extractTickerFrom(content, p + 1)

extractTickerFromContent(content) == extractTickerFrom(content, 1)

IdleExtract == [phase |-> "idle", content |-> "", ticker |-> Null]

(***************************************************************************)
(* Inputs.                                                                 *)
(***************************************************************************)
\* maxRetries and retryDelay as given to the constructor
ScraperRetryOptions == {{}} \cup {{k} : k \in 0..MaxScrapeRetries}

RetryDelayOptions == {{}, {0}, {250}}

\* Texts for extractTickerFromContent
Contents ==
  {"", "no evidence here", "Apple (AAPL)", "Boeing Co (BA) rose",
   "Ticker: ba", "symbol:MSFT", "stock  market", "NYSE:\tGD (X)",
   "nasdaq: abcdefg", "ticker: 12 Symbol: gd", "(A) (BC)", "(aapl) (TOOLONG)",
   "see (GD) and (LMT)", "stock: (BA)"}

MaxConcurrencyOptions == {{}} \cup {{k} : k \in 0..MaxConc}

Options ==
  [maxConcurrency : MaxConcurrencyOptions,
   includeCrustData : BOOLEAN,
   includeTickerDiscovery : BOOLEAN,
   includeSEC : BOOLEAN,
   includeSECSignals : {TRUE},
   includeExa : {TRUE},
   includeFirecrawl : {TRUE}]

IdleBulk ==
  [phase |-> "idle", n |-> 0, opts |-> CHOOSE o \in Options : TRUE, i |-> 0,
   results |-> <<>>, batches |-> 0, delays |-> 0]

\* Company names: the words of NameWords at increasing positions, at most
\* MaxWords of them, joined by blanks.
NameWords ==
  <<"General", "DYNAMICS", "Mission", "Land,", "Ordnance", "Systems Inc.",
    "Constructor">>

RECURSIVE JoinWords(_, _)
JoinWords(S, k) ==
  IF k > Len(NameWords) THEN ""
  ELSE IF k \in S
    THEN NameWords[k]
         \o (IF \E j \in S : j > k THEN " " ELSE "")
         \o JoinWords(S, k + 1)
  ELSE JoinWords(S, k + 1)

CompanyInputs ==
  {JoinWords(S, 1) : S \in {T \in SUBSET (1..Len(NameWords)) : Cardinality(T) <= MaxWords}}
    \cup {"Apple Inc"}

Websites == {"", "https://www.GD.com/investors", "example.com"}

SampleOverrides ==
  [byDomain |-> [d \in {"gd.com"} |-> "GD"],
   byName |-> [n \in {"general"} |-> "GNRL"]]

OverrideConfigs == {NoOverrides, SampleOverrides}

\* A company_tickers.json; the last entry has no title.
DirectoryTable ==
  <<[cik_str |-> "40533", ticker |-> "GD", title |-> "GENERAL DYNAMICS MISSION LAND CORP"],
    [cik_str |-> "1234567890", ticker |-> "GDMLO", title |-> "General Dynamics Mission Land Ordnance Holdings"],
    [cik_str |-> "7", ticker |-> "AERO", title |-> "Aerospace Holdings Inc."],
    [cik_str |-> "40534", ticker |-> "GD-B", title |-> "General Dynamics Mission Land Inc"],
    [cik_str |-> "320193", ticker |-> "AAPL", title |-> "Apple Inc."],
    [cik_str |-> "8", ticker |-> "X", title |-> Null]>>

Directories ==
  {SubSeq(DirectoryTable, 1, k) : k \in {j \in 0..Len(DirectoryTable) : j <= MaxDirectory}}

CacheStates == {"valid", "absent", "corrupt"}

\* Identifiers given to the submissions lookup: digit strings.
CikDigits == {"0", "1"}

RECURSIVE DigitStrings(_)
DigitStrings(n) ==
  IF n = 0 THEN {""}
  ELSE DigitStrings(n - 1) \cup
       {d \o s : d \in CikDigits, s \in {t \in DigitStrings(n - 1) : Len(t) = n - 1}}

CikInputs == DigitStrings(MaxCikLen) \cup {"320193", "0000320193"}

FilingForms == {"4", "10-K", "144/A"}

FilingDocuments ==
  {"gd-20231231.htm", "FORM 4 statement.htm", "platform 4.txt", "form4.xml"}

\* The entries of filings.recent; an entry may lack its primaryDocument.
RawFilings == [form : FilingForms, primaryDocument : FilingDocuments \cup {Null}]

RECURSIVE FilingLists(_)
FilingLists(n) ==
  IF n = 0 THEN {<<>>}
  ELSE FilingLists(n - 1) \cup
       {Append(l, f) : l \in {m \in FilingLists(n - 1) : Len(m) = n - 1}, f \in RawFilings}

Submissions ==
  {NoSubmissions} \cup
  {[hasRecent |-> TRUE, filings |-> l] : l \in FilingLists(MaxFilings)}

MaxCountOptions == {{}} \cup {{k} : k \in 0..MaxFilings}

\* Identifiers given to the base-profile client.
CrustIdentifiers == {"", "stripe.com", "Stripe"}

\* The values of a category of the parsed response.
RECURSIVE SignalItems(_)
SignalItems(n) == IF n = 0 THEN <<>> ELSE Append(SignalItems(n - 1), "signal")

JsonValues == {JAbsent, JArray(<<>>), JArray(SignalItems(MaxSignals)), JString("n/a")}

Summaries ==
  {{},
   {[financialHealthScore |-> {70}, technologyReadinessScore |-> {},
     urgencyScore |-> {0}, opportunityScore |-> {55}]}}

ParsedResponses ==
  [lists : [SeqRange(Categories) -> JsonValues], summary : Summaries]

\* The submissions answered to downloadAllFilings.
DownloadSubmissions ==
  {s \in Submissions :
     \A i \in 1..Len(s.filings) :
       /\ s.filings[i].form \in {"4", "10-K"}
       /\ s.filings[i].primaryDocument \in {"gd-20231231.htm", "FORM 4 statement.htm", Null}}

(***************************************************************************)
(* Actions.                                                                *)
(***************************************************************************)
Init ==
  /\ call = "none"
  /\ bulk = IdleBulk
  /\ req = [r \in 1..MaxIds |-> IdleRequest]
  /\ tick = IdleTickers
  /\ disc = IdleDiscovery
  /\ sec = IdleIdentify
  /\ edgar = IdleEdgar
  /\ dl = IdleDownload
  /\ crust = IdleCrust
  /\ sig = IdleSignals
  /\ scrape = IdleScrape
  /\ ext = IdleExtract

\* enrichCompanies(identifiers, isDomain, options) with n identifiers
EnrichCompanies ==
  /\ call = "none"
  /\ \E n \in 0..MaxIds, o \in Options :
       LET st == enrichCompaniesLoop([IdleBulk EXCEPT !.n = n, !.opts = o], req)
       IN  /\ bulk' = st.bulk
           /\ req' = st.req
  /\ call' = "enrichCompanies"
  /\ UNCHANGED <<tick, disc, sec, edgar, dl, crust, sig, scrape, ext>>

\* The body of a task ends while its wrapper is still racing it.
TaskSettle ==
  /\ call = "enrichCompanies"
  /\ \E r \in 1..MaxIds :
       \E t \in DOMAIN req[r].tasks :
         /\ req[r].tstate[t] = "racing"
         /\ \E out \in Outcomes(req[r].tasks[t]) :
              LET rq == [req EXCEPT ![r] = enrichCompanySettle(req[r], t, out, bulk.opts)]
                  st == AfterRequest(r, rq)
              IN  /\ bulk' = st.bulk
                  /\ req' = st.req
  /\ UNCHANGED <<call, tick, disc, sec, edgar, dl, crust, sig, scrape, ext>>

\* The per-task timer fires while the task body is still pending.
TaskTimeout ==
  /\ call = "enrichCompanies"
  /\ \E r \in 1..MaxIds :
       \E t \in DOMAIN req[r].tasks :
         /\ req[r].tstate[t] = "racing"
         /\ LET rq == [req EXCEPT ![r] = enrichCompanyTimeout(req[r], t)]
                st == AfterRequest(r, rq)
            IN  /\ bulk' = st.bulk
                /\ req' = st.req
  /\ UNCHANGED <<call, tick, disc, sec, edgar, dl, crust, sig, scrape, ext>>

\* The body of a task abandoned by its timeout ends.
AbandonedTaskSettle ==
  /\ call = "enrichCompanies"
  /\ \E r \in 1..MaxIds :
       \E t \in DOMAIN req[r].tasks :
         /\ req[r].tstate[t] = "timedout"
         /\ \E out \in Outcomes(req[r].tasks[t]) :
              req' = [req EXCEPT ![r] = enrichCompanyLate(req[r], t, out)]
  /\ UNCHANGED <<call, bulk, tick, disc, sec, edgar, dl, crust, sig, scrape, ext>>

\* The inter-batch delay elapses: i += concurrency, next iteration.
DelayElapsed ==
  /\ call = "enrichCompanies"
  /\ bulk.phase = "delay"
  /\ LET st == enrichCompaniesLoop([bulk EXCEPT !.i = @ + concurrencyOf(bulk.opts)], req)
     IN  /\ bulk' = st.bulk
         /\ req' = st.req
  /\ UNCHANGED <<call, tick, disc, sec, edgar, dl, crust, sig, scrape, ext>>

\* discoverTickers(companies, options) with n companies
DiscoverTickers ==
  /\ call = "none"
  /\ \E n \in 0..MaxCompanies, mc \in MaxConcurrencyOptions :
       tick' = discoverTickersStart(n, mc)
  /\ call' = "discoverTickers"
  /\ UNCHANGED <<bulk, req, disc, sec, edgar, dl, crust, sig, scrape, ext>>

\* The discoverTicker of one admitted company resolves.
TickerSettle ==
  /\ call = "discoverTickers"
  /\ \E t \in DOMAIN tick.tstate :
       /\ tick.tstate[t] = "racing"
       /\ \E found \in BOOLEAN : tick' = discoverTickersSettle(tick, t, found)
  /\ UNCHANGED <<call, bulk, req, disc, sec, edgar, dl, crust, sig, scrape, ext>>

\* discoverTicker(companyName, website, options)
DiscoverTicker ==
  /\ call = "none"
  /\ \E name \in CompanyNames, website \in BOOLEAN, o \in DiscoveryOptions :
       disc' = discoverTickerStart(name, website, o.includeInternational,
                                   o.maxRetries)
  /\ call' = "discoverTicker"
  /\ UNCHANGED <<bulk, req, tick, sec, edgar, dl, crust, sig, scrape, ext>>

\* The running strategy resolves before its timer.
StrategySettle ==
  /\ call = "discoverTicker"
  /\ disc.phase = "running"
  /\ \E c \in StrategyResults(disc.strategies[disc.i], disc.name, disc.website) :
       disc' = discoverTickerSettle(disc, c)
  /\ UNCHANGED <<call, bulk, req, tick, sec, edgar, dl, crust, sig, scrape, ext>>

\* The timer of the running strategy fires before the strategy resolves.
StrategyTimeout ==
  /\ call = "discoverTicker"
  /\ disc.phase = "running"
  /\ CanTimeOut(disc.strategies[disc.i], disc.website)
  /\ disc' = discoverTickerTimeout(disc)
  /\ UNCHANGED <<call, bulk, req, tick, sec, edgar, dl, crust, sig, scrape, ext>>

\* The body of a strategy whose timer fired resolves afterwards with a
\* candidate, while the loop runs or after the call has returned.  (A body
\* that resolves with null afterwards leaves no trace at all.)
AbandonedStrategySettle ==
  /\ call = "discoverTicker"
  /\ Cardinality(disc.late) < MaxLate
  /\ \E j \in Abandoned(disc) :
       \E c \in StrategyResults(disc.strategies[j], disc.name, disc.website)
                   \ {NoCandidate} :
         disc' = discoverTickerLate(disc, j, c)
  /\ UNCHANGED <<call, bulk, req, tick, sec, edgar, dl, crust, sig, scrape, ext>>

\* identifyPublicCompany(companyName, website): the overrides are those the
\* constructor loaded; the cache file holds a directory, is absent or corrupt.
IdentifyPublicCompany ==
  /\ call = "none"
  /\ \E name \in CompanyInputs, website \in Websites, ov \in OverrideConfigs,
        cache \in CacheStates, cached \in Directories :
       sec' = identifyPublicCompanyStart(name, website, ov, cache, cached)
  /\ call' = "identifyPublicCompany"
  /\ UNCHANGED <<bulk, req, tick, disc, edgar, dl, crust, sig, scrape, ext>>

\* The fetch of the directory delivers it.
DirectoryFetched ==
  /\ call = "identifyPublicCompany"
  /\ sec.phase = "loading"
  /\ \E directory \in Directories : sec' = identifyPublicCompanyMatch(sec, directory)
  /\ UNCHANGED <<call, bulk, req, tick, disc, edgar, dl, crust, sig, scrape, ext>>

\* The fetch of the directory fails.
DirectoryFetchFailed ==
  /\ call = "identifyPublicCompany"
  /\ sec.phase = "loading"
  /\ sec' = identifyPublicCompanyFetchFailed(sec)
  /\ UNCHANGED <<call, bulk, req, tick, disc, edgar, dl, crust, sig, scrape, ext>>

\* getCompanySubmissions(cik)
GetCompanySubmissions ==
  /\ call = "none"
  /\ \E cik \in CikInputs : edgar' = getCompanySubmissionsStart(cik)
  /\ call' = "getCompanySubmissions"
  /\ UNCHANGED <<bulk, req, tick, disc, sec, dl, crust, sig, scrape, ext>>

\* listAllFilings(cik, maxCount)
ListAllFilings ==
  /\ call = "none"
  /\ \E cik \in {"320193"}, mc \in MaxCountOptions :
       edgar' = listAllFilingsStart(cik, mc)
  /\ call' = "listAllFilings"
  /\ UNCHANGED <<bulk, req, tick, disc, sec, dl, crust, sig, scrape, ext>>

\* downloadAllFilings(cik, maxCount)
DownloadAllFilings ==
  /\ call = "none"
  /\ \E cik \in {"320193"}, mc \in MaxCountOptions :
       edgar' = listAllFilingsStart(cik, mc)
  /\ dl' = downloadAllFilingsStart
  /\ call' = "downloadAllFilings"
  /\ UNCHANGED <<bulk, req, tick, disc, sec, crust, sig, scrape, ext>>

\* The submissions of the company arrive.
SubmissionsFetched ==
  /\ edgar.phase = "fetching"
  /\ \/ /\ call = "getCompanySubmissions"
        /\ edgar' = getCompanySubmissionsFetched(edgar, NoSubmissions)
        /\ dl' = dl
     \/ /\ call = "listAllFilings"
        /\ \E s \in Submissions : edgar' = listAllFilingsFetched(edgar, s)
        /\ dl' = dl
     \/ /\ call = "downloadAllFilings"
        /\ \E s \in DownloadSubmissions : edgar' = listAllFilingsFetched(edgar, s)
        /\ dl' = downloadAllFilingsListed(dl, edgar')
  /\ UNCHANGED <<call, bulk, req, tick, disc, sec, crust, sig, scrape, ext>>

\* The request for the submissions fails.
SubmissionsFetchFailed ==
  /\ call \in {"getCompanySubmissions", "listAllFilings", "downloadAllFilings"}
  /\ edgar.phase = "fetching"
  /\ edgar' = getCompanySubmissionsFailed(edgar)
  /\ dl' = IF call = "downloadAllFilings" THEN downloadAllFilingsListed(dl, edgar')
                                          ELSE dl
  /\ UNCHANGED <<call, bulk, req, tick, disc, sec, crust, sig, scrape, ext>>

\* The download of the current filing succeeds.
FilingDownloaded ==
  /\ call = "downloadAllFilings"
  /\ dl.phase = "downloading"
  /\ dl' = downloadFilingDone(dl)
  /\ UNCHANGED <<call, bulk, req, tick, disc, sec, edgar, crust, sig, scrape, ext>>

\* The download of the current filing fails.
FilingDownloadFailed ==
  /\ call = "downloadAllFilings"
  /\ dl.phase = "downloading"
  /\ dl' = downloadFilingFailed(dl)
  /\ UNCHANGED <<call, bulk, req, tick, disc, sec, edgar, crust, sig, scrape, ext>>

\* The pause after a download elapses.
DownloadDelayElapsed ==
  /\ call = "downloadAllFilings"
  /\ dl.phase = "delay"
  /\ dl' = downloadDelayElapsed(dl)
  /\ UNCHANGED <<call, bulk, req, tick, disc, sec, edgar, crust, sig, scrape, ext>>


\* CrustDataEnrichmentService.enrichCompany(identifier, isDomain)
CrustEnrichCompany ==
  /\ call = "none"
  /\ \E identifier \in CrustIdentifiers, isDomain \in BOOLEAN :
       crust' = clientEnrichCompanyStart(identifier, isDomain)
  /\ call' = "crustEnrichCompany"
  /\ UNCHANGED <<bulk, req, tick, disc, sec, edgar, dl, sig, scrape, ext>>

\* The request of the lookup in progress is answered with status ok.
LookupAnswered ==
  /\ call = "crustEnrichCompany"
  /\ crust.pending
  /\ \E hasData \in BOOLEAN : crust' = clientLookupAnswered(crust, hasData)
  /\ UNCHANGED <<call, bulk, req, tick, disc, sec, edgar, dl, sig, scrape, ext>>

\* The request of the lookup in progress fails: status not ok, network
\* error or abort by the client's timeout.
LookupFailed ==
  /\ call = "crustEnrichCompany"
  /\ crust.pending
  /\ crust' = clientLookupThrew(crust)
  /\ UNCHANGED <<call, bulk, req, tick, disc, sec, edgar, dl, sig, scrape, ext>>

\* extractSignals(companyName, ticker, documents, options)
ExtractSignals ==
  /\ call = "none"
  /\ sig' = extractSignalsStart
  /\ call' = "extractSignals"
  /\ UNCHANGED <<bulk, req, tick, disc, sec, edgar, dl, crust, scrape, ext>>

\* The completion arrives and holds a JSON object.
AnalysisReceived ==
  /\ call = "extractSignals"
  /\ sig.phase = "waiting"
  /\ \E parsed \in ParsedResponses : sig' = extractSignalsParsed(sig, parsed)
  /\ UNCHANGED <<call, bulk, req, tick, disc, sec, edgar, dl, crust, scrape, ext>>

\* extractTickerFromContent(content)
ExtractTicker ==
  /\ call = "none"
  /\ \E content \in Contents :
       ext' = [phase |-> "done", content |-> content,
               ticker |-> extractTickerFromContent(content)]
  /\ call' = "extractTickerFromContent"
  /\ UNCHANGED <<bulk, req, tick, disc, sec, edgar, dl, crust, sig, scrape>>

\* new FirecrawlScraper({maxRetries, retryDelay}).scrapeUrl(url)
ScrapeUrl ==
  /\ call = "none"
  /\ \E mr \in ScraperRetryOptions, rd \in RetryDelayOptions :
       scrape' = scrapeUrlStart(mr, rd)
  /\ call' = "scrapeUrl"
  /\ UNCHANGED <<bulk, req, tick, disc, sec, edgar, dl, crust, sig, ext>>

\* app.scrapeUrl resolves, with or without data.
ScrapeAnswered ==
  /\ call = "scrapeUrl"
  /\ scrape.phase = "attempting"
  /\ \E hasData \in BOOLEAN : scrape' = scrapeUrlAnswered(scrape, hasData)
  /\ UNCHANGED <<call, bulk, req, tick, disc, sec, edgar, dl, crust, sig, ext>>

\* app.scrapeUrl rejects, or reading the response throws.
ScrapeThrew ==
  /\ call = "scrapeUrl"
  /\ scrape.phase = "attempting"
  /\ scrape' = scrapeUrlThrew(scrape)
  /\ UNCHANGED <<call, bulk, req, tick, disc, sec, edgar, dl, crust, sig, ext>>

\* The timer of this.delay fires.
ScrapeDelayElapsed ==
  /\ call = "scrapeUrl"
  /\ scrape.phase = "waiting"
  /\ scrape' = scrapeUrlDelayElapsed(scrape)
  /\ UNCHANGED <<call, bulk, req, tick, disc, sec, edgar, dl, crust, sig, ext>>

\* The completion request fails or its content cannot be parsed.
AnalysisFailed ==
  /\ call = "extractSignals"
  /\ sig.phase = "waiting"
  /\ sig' = extractSignalsFailed(sig)
  /\ UNCHANGED <<call, bulk, req, tick, disc, sec, edgar, dl, crust, scrape, ext>>

Next ==
  \/ EnrichCompanies
  \/ TaskSettle
  \/ TaskTimeout
  \/ AbandonedTaskSettle
  \/ DelayElapsed
  \/ DiscoverTickers
  \/ TickerSettle
  \/ DiscoverTicker
  \/ StrategySettle
  \/ StrategyTimeout
  \/ AbandonedStrategySettle
  \/ ExtractTicker
  \/ ScrapeUrl
  \/ ScrapeAnswered
  \/ ScrapeThrew
  \/ ScrapeDelayElapsed
  \/ IdentifyPublicCompany
  \/ DirectoryFetched
  \/ DirectoryFetchFailed
  \/ GetCompanySubmissions
  \/ ListAllFilings
  \/ SubmissionsFetched
  \/ SubmissionsFetchFailed
  \/ DownloadAllFilings
  \/ FilingDownloaded
  \/ FilingDownloadFailed
  \/ DownloadDelayElapsed
  \/ CrustEnrichCompany
  \/ LookupAnswered
  \/ LookupFailed
  \/ ExtractSignals
  \/ AnalysisReceived
  \/ AnalysisFailed

Spec == Init /\ [][Next]_vars

\* enrichCompanies with at most MaxFairIds identifiers and every data
\* source left switched on.
EnrichFewCompanies ==
  /\ call = "none"
  /\ \E n \in 0..MaxFairIds,
        o \in {p \in Options : /\ p.includeCrustData
                               /\ p.includeTickerDiscovery
                               /\ p.includeSEC} :
       LET st == enrichCompaniesLoop([IdleBulk EXCEPT !.n = n, !.opts = o], req)
       IN  /\ bulk' = st.bulk
           /\ req' = st.req
  /\ call' = "enrichCompanies"
  /\ UNCHANGED <<tick, disc, sec, edgar, dl, crust, sig, scrape, ext>>

\* The gated executions alone: enrichCompanies with its requests, and
\* discoverTickers.
GatedNext ==
  \/ EnrichFewCompanies
  \/ TaskSettle
  \/ TaskTimeout
  \/ AbandonedTaskSettle
  \/ DelayElapsed
  \/ DiscoverTickers
  \/ TickerSettle

\* Every admitted task eventually settles or is timed out by its timer
\* (timers fire; a discoverTicker call returns), and the delay timer fires.
FairSpec ==
  /\ Init
  /\ [][GatedNext]_vars
  /\ WF_vars(TaskSettle \/ TaskTimeout)
  /\ WF_vars(TickerSettle)
  /\ WF_vars(DelayElapsed)

(***************************************************************************)
(* Properties.                                                             *)
(***************************************************************************)
Started == {r \in 1..MaxIds : req[r].phase # "idle"}

\* The tasks of a gate that acquired a permit and have not released it.
Holders(g) == {t \in SeqRange(g.sem.granted) : g.rel[t] = 0}

\* The tasks whose body is running, abandoned bodies included.
Executing(g) == {t \in DOMAIN g.tstate : g.tstate[t] \in {"racing", "timedout"}}

\* The tasks of a request whose body was started.
Invoked(q) == {q.tasks[t] : t \in {u \in DOMAIN q.tasks : q.tstate[u] # "queued"}}

FetchFailed(q) == q.fetch \in {"nodata", "error", "error_empty"}

\* The concurrency limit a caller asked for (3 when the option is absent).
LimitOf(mc) == IF mc = {} THEN 3 ELSE CHOOSE k \in mc : TRUE

CeilDiv(n, c) == (n + c - 1) \div c

\* C1: when the per-task timeout of a task of enrichCompany expires, the
\* request does not reject: the timeout alone does not fail the enrichment.
C1_TimeoutIsNonFatal ==
  \A r \in Started : req[r].timedOut => req[r].phase # "rejected"

\* The field a dependent task needs populated in the shared result.
Prerequisite(kind, res) ==
  CASE kind = "crustdata" -> TRUE
    [] kind = "ticker" -> res.company # Null
    [] kind = "sec" -> res.ticker # Null \/ res.company # Null
    [] kind = "signals" -> res.secData = "public" /\ res.ticker # Null
    [] kind = "exa" -> res.company # Null
    [] kind = "firecrawl" -> res.company # Null

\* C2: if the base-profile fetch fails, the returned record has success=false
\* and neither ticker discovery nor the SEC task is ever invoked in that
\* request; no dependent task is invoked unless its prerequisite field was
\* populated in the shared result when the task list was built.
C2_DependencySnapshot ==
  \A r \in Started :
    /\ FetchFailed(req[r]) => Invoked(req[r]) \cap {"ticker", "sec"} = {}
    /\ FetchFailed(req[r]) /\ req[r].phase = "returned" => ~req[r].result.success
    /\ \A kind \in Invoked(req[r]) : Prerequisite(kind, req[r].snapshot)

C2_Witness ==
  \E r \in Started :
    /\ FetchFailed(req[r]) /\ req[r].phase = "returned" /\ ~req[r].result.success
    /\ bulk.opts.includeTickerDiscovery /\ bulk.opts.includeSEC

\* C3: a returned record has success=true iff no fatal error was recorded;
\* only a failed base-profile fetch records an error; no other task body
\* sets error or success; success=false comes with a non-empty error string.
C3_SuccessIffNoFatalError ==
  \A r \in Started :
    /\ req[r].result.error # Null => FetchFailed(req[r])
    /\ req[r].phase = "returned" =>
         /\ req[r].result.success <=> (req[r].result.error = Null)
         /\ req[r].result.success <=> ~FetchFailed(req[r])
         /\ ~req[r].result.success =>
              req[r].result.error # Null /\ req[r].result.error # ""
    /\ \A kind \in {"ticker", "sec", "signals", "exa", "firecrawl"} :
         \A out \in Outcomes(kind) :
           /\ RunTask(kind, req[r].result, out).error = req[r].result.error
           /\ RunTask(kind, req[r].result, out).success = req[r].result.success

C3_Witness ==
  \E r \in Started :
    /\ req[r].phase = "returned" /\ req[r].fetch = "error_empty"
    /\ ~req[r].result.success /\ req[r].result.error = DefaultErrorMessage

ReleasedOnce(g) ==
  \A t \in DOMAIN g.tstate :
    g.rel[t] = IF g.tstate[t] \in {"settled", "timedout", "late"} THEN 1 ELSE 0

\* Every permit is either free or held, and none is free while a task waits.
PermitsReturned(g, limit) ==
  /\ g.sem.permits + Cardinality(Holders(g)) = limit
  /\ g.sem.waiting # <<>> => Cardinality(Holders(g)) >= limit

\* C5: every admitted task releases its permit exactly once, also when its
\* timeout fires first, so that a waiting task is admitted as soon as a
\* holder finishes or fails; in enrichCompany and in discoverTickers.
C5_ReleaseExactlyOnce ==
  /\ \A r \in Started :
       /\ ReleasedOnce(req[r])
       /\ PermitsReturned(req[r], LimitOf(bulk.opts.maxConcurrency))
  /\ tick.phase # "idle" =>
       /\ ReleasedOnce(tick)
       /\ PermitsReturned(tick, LimitOf(tick.maxConcurrency))

C5_Witness ==
  /\ tick.phase = "running"
  /\ \E t, u \in DOMAIN tick.tstate :
       /\ tick.tstate[t] = "settled" /\ tick.rel[t] = 1
       /\ u > LimitOf(tick.maxConcurrency) /\ tick.tstate[u] = "racing"

Increasing(s) == \A i, j \in 1..Len(s) : i < j => s[i] < s[j]

\* acquire() is called in list order, so a task's position is its arrival
\* rank: admissions and the waiting list follow it.
FIFO(g) ==
  /\ Increasing(g.sem.granted)
  /\ Increasing(g.sem.waiting)
  /\ \A a \in SeqRange(g.sem.granted), w \in SeqRange(g.sem.waiting) : a < w
  /\ g.sem.waiting # <<>> => g.sem.permits <= 0

\* C6: waiters are admitted in FIFO order: of two tasks that both had to
\* wait, the one that called acquire first is admitted first, and no acquire
\* is granted a permit while an earlier waiter is queued.
C6_FIFOAdmission ==
  /\ \A r \in Started : FIFO(req[r])
  /\ tick.phase # "idle" => FIFO(tick)

C6_Witness ==
  /\ tick.phase = "running"
  /\ LimitOf(tick.maxConcurrency) >= 1
  /\ Len(tick.sem.granted) >= LimitOf(tick.maxConcurrency) + 2
  /\ tick.sem.waiting # <<>>

\* The batch size of enrichCompanies: maxConcurrency, 3 by default.
BatchSizeOf(mc) == IF mc = {} \/ mc = {0} THEN 3 ELSE CHOOSE k \in mc : TRUE

BatchNo(r) == CeilDiv(r, BatchSizeOf(bulk.opts.maxConcurrency))

\* C8: no enrichment of batch k+1 starts before every enrichment of batch k
\* has returned with all its gated tasks settled, and before the inter-batch
\* delay has elapsed.
C8_BatchesDoNotOverlap ==
  /\ [](\A r \in 1..MaxIds, r2 \in Started :
          BatchNo(r) < BatchNo(r2) =>
            /\ req[r].phase = "returned"
            /\ \A t \in DOMAIN req[r].tstate : req[r].tstate[t] = "settled")
  /\ [][\A r2 \in 1..MaxIds :
          /\ CeilDiv(r2, BatchSizeOf(bulk'.opts.maxConcurrency)) > 1
          /\ req[r2].phase = "idle" /\ req'[r2].phase # "idle"
          => bulk.phase = "delay"]_vars

C8_Witness ==
  /\ bulk.batches = 2 /\ BatchSizeOf(bulk.opts.maxConcurrency) = 2
  /\ \E r \in Started : BatchNo(r) = 2 /\ req[r].phase = "running"

\* C9: a fatal failure for one identifier aborts neither the batch nor the
\* bulk call: only a timeout rejects; the returned list holds exactly one
\* record per input identifier, in input order.
C9_FailureDoesNotAbort ==
  /\ \A r \in Started : req[r].phase = "rejected" => req[r].timedOut
  /\ bulk.phase = "rejected" => \E r \in Started : req[r].timedOut
  /\ bulk.phase = "done" =>
       /\ Len(bulk.results) = bulk.n
       /\ \A k \in 1..bulk.n :
            /\ bulk.results[k].id = k
            /\ req[k].phase = "returned"
            /\ bulk.results[k].rec = req[k].result

C9_Witness ==
  /\ bulk.phase = "done" /\ bulk.n >= 3
  /\ ~bulk.results[2].rec.success /\ bulk.results[2].rec.error # Null
  /\ bulk.results[1].rec.success /\ bulk.results[3].rec.success

\* A strategy that resolved in its time box with a candidate above 0.70.
Qualifies(e) ==
  e.kind = "settled" /\ e.cand # NoCandidate /\ e.cand.confidence > 70

\* C10: the first strategy, in list order, that yields a candidate with
\* confidence > 0.70 ends the search: that candidate is returned unchanged
\* and no later strategy is invoked.
C10_FirstAboveThresholdWins ==
  \A j \in 1..Len(disc.log) :
    Qualifies(disc.log[j]) =>
      /\ j = Len(disc.log) /\ disc.i = j
      /\ disc.phase = "done" /\ disc.result = disc.log[j].cand

C10_Witness ==
  /\ disc.phase = "done" /\ Len(disc.log) = 5 /\ Len(disc.strategies) = 10
  /\ disc.result = Candidate("TCK", 75, "exa_search")

\* The order the strategies are documented to run in, by method name:
\* financial-modeling keyword search (0.85) before ticker/stock keyword
\* search (0.80).
DocumentedOrder(includeInternational) ==
     <<"google_finance", "yahoo_finance", "financial_modeling_prep",
       "alpha_vantage", "exa_search">>
  \o (IF includeInternational
        THEN <<"international_exchange", "european_exchange", "asian_exchange">>
        ELSE <<>>)
  \o <<"web_scraping", "manual_mapping">>

\* The methods of the strategies invoked so far, in invocation order.
InvokedStrategies == SubSeq(disc.strategies, 1, disc.i)

\* C11: discoverTicker invokes its strategies in exactly the documented
\* order: structured quote (0.95), alternate quote provider (0.90),
\* financial-modeling keyword (0.85), ticker/stock keyword (0.80), broad
\* multi-query (0.75), the three exchange sweeps (0.70) only if international
\* search is enabled, investor-relations search (0.80), manual table.
C11_DocumentedStrategyOrder ==
  disc.phase # "idle" =>
    \E inc \in BOOLEAN :
      /\ Len(DocumentedOrder(inc)) = Len(disc.strategies)
      /\ InvokedStrategies = SubSeq(DocumentedOrder(inc), 1, disc.i)

\* A strategy that ended without a usable candidate: it timed out, or it
\* resolved with null (no hit, or an error swallowed by its own catch).
NoResult(e) == e.kind = "timeout" \/ e.cand = NoCandidate

\* C12: a strategy that times out or fails internally counts as no result:
\* the next strategy is invoked (or, after the last one, null is returned),
\* and discoverTicker never rejects.
C12_StrategyFailureIsNoResult ==
  /\ disc.phase \in {"idle", "running", "done"}
  /\ \A j \in 1..Len(disc.log) :
       NoResult(disc.log[j]) =>
         IF j < Len(disc.strategies)
           THEN disc.i > j
           ELSE disc.phase = "done" /\ disc.result = NoCandidate

C12_Witness ==
  /\ disc.phase = "running" /\ disc.i = 3
  /\ disc.log[1].kind = "timeout"
  /\ disc.log[2].kind = "settled" /\ disc.log[2].cand = NoCandidate

\* C13: discoverTicker returns null whenever every strategy yields no
\* candidate or one with confidence <= 0.70; every non-null result has
\* confidence strictly above 0.70.
C13_NullUnlessAboveThreshold ==
  disc.phase = "done" =>
    /\ disc.result # NoCandidate => disc.result.confidence > ConfidenceThreshold
    /\ (\A j \in 1..Len(disc.log) : ~Qualifies(disc.log[j])) =>
         disc.result = NoCandidate

C13_Witness ==
  /\ disc.phase = "done" /\ disc.result = NoCandidate
  /\ \E j \in 1..Len(disc.log) :
       /\ disc.log[j].kind = "settled"
       /\ disc.log[j].cand.confidence = ConfidenceThreshold

\* C14: a manual_mapping result is returned only after every earlier
\* strategy was invoked and timed out, failed or gave no candidate above
\* 0.70; for Boeing with every search failing the result is BA by
\* manual_mapping.
C14_ManualMappingLast ==
  /\ disc.result.method = "manual_mapping" =>
       /\ Len(disc.log) = Len(disc.strategies)
       /\ \A j \in 1..(Len(disc.log) - 1) :
            /\ disc.strategies[j] # "manual_mapping"
            /\ ~Qualifies(disc.log[j])
  /\ /\ disc.phase = "done" /\ disc.name = "Boeing"
     /\ \A j \in 1..Len(disc.log) :
          disc.strategies[j] # "manual_mapping" => NoResult(disc.log[j])
     => disc.result = Candidate("BA", 99, "manual_mapping")

C14_Witness ==
  /\ disc.phase = "done" /\ disc.name = "Boeing"
  /\ Len(disc.log) = 10
  /\ disc.log[1].kind = "timeout" /\ disc.log[9].kind = "settled"
  /\ disc.result = Candidate("BA", 99, "manual_mapping")

\* An internal failure of the identification in progress: the directory
\* could not be fetched, or the loaded directory has an entry without title.
InternalFailure ==
  \/ sec.failure = "fetch"
  \/ \E k \in 1..Len(sec.directory) : sec.directory[k].title = Null

\* C15: identifyPublicCompany never raises: on an internal failure (the
\* directory cannot be loaded, a directory entry is malformed) it returns
\* {isPublic:false, confidence:0}.
C15_IdentifyNeverRaises ==
  /\ sec.phase \in {"idle", "loading", "done"}
  /\ InternalFailure => sec.phase = "done" /\ sec.result = NotPublic
  /\ sec.failure # "none" => InternalFailure

C15_Witness ==
  /\ sec.phase = "done" /\ sec.failure = "malformed"
  /\ sec.name = "General DYNAMICS Mission Land,"
  /\ Len(sec.directory) = 6 /\ sec.result = NotPublic

\* The override tables answer for the arguments of the call in progress.
DomainHit ==
  /\ normalizeDomain(sec.website) # ""
  /\ Truthy(Lookup(sec.overrides.byDomain, normalizeDomain(sec.website)))

NameHit ==
  /\ normalizeCompanyName(sec.name) # ""
  /\ Truthy(Lookup(sec.overrides.byName, normalizeCompanyName(sec.name)))

\* C16: the lookups are applied in the order domain override, name override,
\* directory, and the first hit wins: a domain hit returns confidence 1 from
\* the overrides without the name table or the directory being consulted, a
\* name hit returns without the directory being loaded, and the directory
\* is consulted only when both overrides miss.
C16_FirstHitWins ==
  sec.phase # "idle" =>
    /\ DomainHit =>
         /\ sec.phase = "done" /\ sec.consulted = <<"domain">>
         /\ sec.result = OverrideMatch(
              sec.name, Lookup(sec.overrides.byDomain, normalizeDomain(sec.website)))
    /\ ~DomainHit /\ NameHit =>
         /\ sec.phase = "done" /\ "directory" \notin SeqRange(sec.consulted)
         /\ sec.result = OverrideMatch(
              sec.name, Lookup(sec.overrides.byName, normalizeCompanyName(sec.name)))
    /\ "directory" \in SeqRange(sec.consulted) <=> ~DomainHit /\ ~NameHit
    /\ sec.result.source = "overrides" =>
         sec.result.isPublic /\ sec.result.confidence = 100
    /\ sec.result.source = "sec_directory" => sec.result.isPublic

C16_Witness ==
  /\ sec.phase = "done" /\ DomainHit /\ NameHit
  /\ sec.consulted = <<"domain">> /\ sec.result.ticker = "GD"
  /\ sec.result.confidence = 100 /\ sec.result.source = "overrides"

\* C17: directory matching never returns a match whose Jaccard similarity is
\* below 0.80, and with an empty directory and no override hit the result
\* is isPublic:false with confidence 0.
C17_NoMatchBelowThreshold ==
  /\ sec.result.source = "sec_directory" =>
       /\ sec.result.confidence >= 80
       /\ \E k \in 1..Len(sec.directory) :
            /\ sec.directory[k].title = sec.result.matchedTitle
            /\ LET score == jaccardSimilarity(
                              tokenSet(normalizeCompanyName(sec.name)),
                              tokenSet(normalizeCompanyName(sec.directory[k].title)))
               IN  100 * score.num >= 80 * score.den
  /\ /\ sec.phase = "done" /\ "directory" \in SeqRange(sec.consulted)
     /\ sec.directory = <<>>
     => sec.result = NotPublic

C17_Witness ==
  /\ sec.phase = "done" /\ sec.result.source = "sec_directory"
  /\ sec.name = "General DYNAMICS Mission Land, Ordnance"
  /\ sec.result.matchedTitle = "GENERAL DYNAMICS MISSION LAND CORP"
  /\ sec.result.confidence = 80

\* The token sets that normalization produces from the name of the call in
\* progress and from the titles of the directory.
NameTokens == tokenSet(normalizeCompanyName(sec.name))

TitleTokens ==
  {tokenSet(normalizeCompanyName(DirectoryTable[k].title)) :
     k \in {j \in 1..Len(DirectoryTable) : DirectoryTable[j].title # Null}}

\* C18: for all token sets a, b produced by normalization the similarity is
\* symmetric and lies in [0,1], and the similarity of a normalized name with
\* itself is 1.0, also when normalization leaves no tokens.
C18_JaccardProperties ==
  sec.phase # "idle" =>
    /\ \A b \in TitleTokens :
         /\ jaccardSimilarity(NameTokens, b) = jaccardSimilarity(b, NameTokens)
         /\ jaccardSimilarity(NameTokens, b).num >= 0
         /\ jaccardSimilarity(NameTokens, b).den > 0
         /\ jaccardSimilarity(NameTokens, b).num <= jaccardSimilarity(NameTokens, b).den
    /\ \A a \in TitleTokens \cup {NameTokens} :
         jaccardSimilarity(a, a).num = jaccardSimilarity(a, a).den

IsDigitString(s) == \A i \in 1..Len(s) : CharAt(s, i) \in CharsOf(Digits)

\* A 10-digit zero-padded identifier.
IsPaddedCIK(s) == Len(s) = 10 /\ IsDigitString(s)

\* C19: zeroPadCIK is idempotent and yields a 10-digit zero-padded string
\* for an identifier of at most 10 digits: a 10-digit value is unchanged,
\* "320193" yields "0000320193", and every cik returned by
\* identifyPublicCompany or used for a submissions lookup has this form.
C19_ZeroPadCIK ==
  /\ edgar.phase # "idle" /\ Len(edgar.cik) <= 10 /\ IsDigitString(edgar.cik) =>
       /\ IsPaddedCIK(edgar.cikPadded)
       /\ zeroPadCIK(edgar.cikPadded) = edgar.cikPadded
       /\ stripLeadingZeros(edgar.cikPadded) = stripLeadingZeros(edgar.cik)
       /\ IsPaddedCIK(edgar.cik) => edgar.cikPadded = edgar.cik
       /\ edgar.cik = "320193" => edgar.cikPadded = "0000320193"
  /\ sec.result.cik # Null => IsPaddedCIK(sec.result.cik)

C19_Witness ==
  /\ call = "getCompanySubmissions" /\ edgar.phase = "done"
  /\ edgar.cik = "320193" /\ edgar.cikPadded = "0000320193"

\* The description contains one of the exclusion keywords, whatever the case
\* of its letters.
ContainsKeyword(description) ==
  \E keyword \in StockKeywords :
    \E i \in 1..Len(description) :
      /\ i + Len(keyword) - 1 <= Len(description)
      /\ toLowerCase(SubSeq(description, i, i + Len(keyword) - 1)) = keyword

\* C20: the classification is a deterministic function of (formType,
\* description): classifying the same list again gives the same flags;
\* isExcluded holds iff the form is 3, 4, 5, 144 or one of their /A
\* amendments, or the description contains an exclusion keyword in any
\* case; so a "4" is always excluded and a "10-K" without keyword never is.
C20_FilingClassification ==
  call = "listAllFilings" /\ edgar.phase = "done" =>
    /\ \A i \in 1..Len(edgar.out) :
         LET f == edgar.out[i]
         IN  /\ f.form = edgar.submissions.filings[i].form
             /\ f.description = edgar.submissions.filings[i].primaryDocument
             /\ f.isExcluded <=>
                  \/ f.form \in {"3", "4", "5", "144", "3/A", "4/A", "5/A", "144/A"}
                  \/ ContainsKeyword(f.description)
             /\ f.form = "4" => f.isExcluded
             /\ f.form = "10-K" /\ ~ContainsKeyword(f.description) => ~f.isExcluded
    /\ edgar.out = listAllFilingsFetched(edgar, edgar.submissions).out

C20_Witness ==
  /\ call = "listAllFilings" /\ edgar.phase = "done" /\ Len(edgar.out) = 2
  /\ edgar.out[1].form = "10-K" /\ edgar.out[1].description = "FORM 4 statement.htm"
  /\ edgar.out[1].isExcluded
  /\ edgar.out[2].form = "10-K" /\ edgar.out[2].description = "gd-20231231.htm"
  /\ ~edgar.out[2].isExcluded


\* The collaborators that contributed data to a result.
Contributors(res) ==
     (IF Truthy(res.company) THEN <<"crustdata">> ELSE <<>>)
  \o (IF Truthy(res.secData) THEN <<"sec">> ELSE <<>>)
  \o (IF Truthy(res.exaData) THEN <<"exa">> ELSE <<>>)
  \o (IF Truthy(res.firecrawlData) THEN <<"firecrawl">> ELSE <<>>)
  \o (IF Truthy(res.secSignals) THEN <<"sec_signals">> ELSE <<>>)

\* C23: the data_sources list of a returned record contains a collaborator's
\* name if and only if that collaborator contributed data to the record;
\* 'crustdata' is listed only when the base-profile fetch produced a company.
C23_DataSourcesAreContributors ==
  \A r \in Started :
    req[r].phase = "returned" =>
      /\ SeqRange(req[r].result.dataSources) = SeqRange(Contributors(req[r].result))
      /\ "crustdata" \in SeqRange(req[r].result.dataSources) => req[r].fetch = "ok"

TaskKinds == {"crustdata", "ticker", "sec", "signals", "exa", "firecrawl"}

\* A result whose every field holds a value no task body writes.
StaleResult ==
  [company |-> "stale", enrichmentFields |-> [k \in {"stale"} |-> "stale"],
   ticker |-> "stale", tickerConfidence |-> "stale", tickerMethod |-> "stale",
   isPublic |-> "stale", secData |-> "stale", secSignals |-> "stale",
   exaData |-> "stale", firecrawlData |-> "stale", error |-> "stale",
   success |-> TRUE, dataSources |-> <<"stale">>]

\* The fields of the result the body of a task of this kind changes when it
\* runs on res, over every way the task can end.
WritesOn(kind, res) ==
  {f \in DOMAIN res : \E out \in Outcomes(kind) : RunTask(kind, res, out)[f] # res[f]}

\* The fields a task of this kind can write.
Writes ==
  [kind \in TaskKinds |-> WritesOn(kind, EmptyResult) \cup WritesOn(kind, StaleResult)]

\* C24: no two concurrently running tasks of one enrichCompany request write
\* the same field of the shared result: the six task bodies write pairwise
\* disjoint sets of result fields, whatever the state of the result they run
\* on, so no interleaving of their writes touches one field twice.
C24_DisjointTaskWrites ==
  /\ \A k1, k2 \in TaskKinds : k1 # k2 => Writes[k1] \cap Writes[k2] = {}
  /\ \A k \in TaskKinds : Writes[k] # {}
  /\ \A r \in Started :
       /\ \A t \in Executing(req[r]) :
            WritesOn(req[r].tasks[t], req[r].result) \subseteq Writes[req[r].tasks[t]]
       /\ \A t1, t2 \in Executing(req[r]) :
            t1 # t2 => Writes[req[r].tasks[t1]] \cap Writes[req[r].tasks[t2]] = {}

\* A task body has written its fields while the task of another request of
\* the batch is still running.
C24_Witness ==
  \E r1, r2 \in Started :
    /\ r1 # r2
    /\ req[r1].fetch = "ok"
    /\ req[r1].result.company = "co"
    /\ req[r1].result.enrichmentFields = extractEnrichmentFields("co")
    /\ Executing(req[r2]) # {}
    /\ Writes["crustdata"] = {"company", "enrichmentFields", "error"}
    /\ Writes["ticker"] = {"ticker", "tickerConfidence", "tickerMethod", "isPublic"}

\* The result after the tasks of the kinds in S, in construction order, each
\* ended with data.
TaskOrder == <<"crustdata", "ticker", "sec", "signals", "exa", "firecrawl">>

RECURSIVE ResultAfter(_, _, _)
ResultAfter(S, k, res) ==
  IF k > Len(TaskOrder) THEN res
  ELSE ResultAfter(S, k + 1,
                   IF TaskOrder[k] \in S THEN RunTask(TaskOrder[k], res, "ok") ELSE res)

\* The keys each present sub-record contributes to the enrichment fields.
Contributions(res) ==
  {res.enrichmentFields, SecFields(res), TickerFields(res), SignalFields(res),
   ExaFields(res), FirecrawlFields(res)}

C28_NotPublicCarriesNothing ==
  call = "identifyPublicCompany" /\ sec.phase = "done" =>
    /\ sec.result.confidence \in 0..100
    /\ ~sec.result.isPublic =>
         /\ sec.result.confidence = 0
         /\ sec.result.ticker = Null
         /\ sec.result.cik = Null

\* A name that shares tokens with a directory entry, but too few of them.
C28_Witness ==
  /\ call = "identifyPublicCompany" /\ sec.phase = "done"
  /\ sec.failure = "none" /\ ~sec.result.isPublic
  /\ sec.name = "General DYNAMICS Constructor"
  /\ Len(sec.directory) = 3

\* The similarity of the name of the call in progress with entry k of the
\* directory it was matched against.
DirectoryScore(k) ==
  jaccardSimilarity(NameTokens, tokenSet(normalizeCompanyName(sec.directory[k].title)))

Qualifying ==
  {k \in 1..Len(sec.directory) :
     100 * DirectoryScore(k).num >= 80 * DirectoryScore(k).den}

\* c hundredths is score rounded to 2 decimals
RoundsTo(score, c) ==
  /\ 2 * (100 * score.num - c * score.den) <= score.den
  /\ 2 * (c * score.den - 100 * score.num) <= score.den

\* C29: the directory match returns the entry with the highest similarity
\* among those scoring >= 0.80, the first in directory order when several
\* tie for the maximum, with the similarity rounded to 2 decimals as its
\* confidence; "Apple Inc" against "Apple Inc." gives AAPL, confidence 1.0.
C29_BestMatchFirstOnTies ==
  /\ call = "identifyPublicCompany" /\ sec.phase = "done"
  /\ "directory" \in SeqRange(sec.consulted) /\ sec.failure = "none"
  =>
  /\ Qualifying = {} => sec.result = NotPublic
  /\ Qualifying # {} =>
       \E k \in Qualifying :
         /\ \A j \in Qualifying :
              /\ ~Greater(DirectoryScore(j), DirectoryScore(k))
              /\ j < k => Greater(DirectoryScore(k), DirectoryScore(j))
         /\ sec.result.isPublic
         /\ sec.result.ticker = sec.directory[k].ticker
         /\ sec.result.matchedTitle = sec.directory[k].title
         /\ RoundsTo(DirectoryScore(k), sec.result.confidence)
  /\ /\ sec.name = "Apple Inc"
     /\ \E k \in 1..Len(sec.directory) : sec.directory[k].title = "Apple Inc."
     => /\ sec.result.ticker = "AAPL" /\ sec.result.confidence = 100
        /\ sec.result.cik = "0000320193"

\* Two entries tie for the maximum and the first of them is returned.
C29_Witness ==
  /\ call = "identifyPublicCompany" /\ sec.phase = "done"
  /\ sec.failure = "none" /\ sec.result.source = "sec_directory"
  /\ \E j, k \in Qualifying :
       /\ j < k
       /\ ~Greater(DirectoryScore(j), DirectoryScore(k))
       /\ ~Greater(DirectoryScore(k), DirectoryScore(j))
       /\ sec.result.ticker = sec.directory[j].ticker
       /\ sec.directory[k].ticker = "GD-B"
  /\ sec.result.ticker = "GD"

\* The raw filings that carry a primary document.
RECURSIVE WellFormed(_)
WellFormed(filings) ==
  IF filings = <<>> THEN <<>>
  ELSE (IF Head(filings).primaryDocument # Null THEN <<Head(filings)>> ELSE <<>>)
       \o WellFormed(Tail(filings))

\* C22: filing classification never fails: when the raw filing list contains
\* malformed entries, listAllFilings skips them and still classifies and
\* returns the remaining entries.
C22_ClassificationNeverFails ==
  /\ call = "listAllFilings" /\ edgar.phase \in {"done", "rejected"}
  /\ edgar.submissions.hasRecent
  =>
  /\ edgar.phase = "done"
  /\ edgar.out = listAllFilingsLoop(WellFormed(edgar.submissions.filings), 1,
                                    maxCountOf(edgar.maxCount), <<>>).out

Min(a, b) == IF a < b THEN a ELSE b

\* C21: excluded filings are retained, flagged, in the list listAllFilings
\* returns; downloadAllFilings never downloads a filing whose isExcluded is
\* true; no excluded filing is passed to signal extraction.
C21_ExcludedRetainedNotProcessed ==
  /\ call = "listAllFilings" /\ edgar.phase = "done" /\ edgar.submissions.hasRecent =>
       /\ Len(edgar.out) = Min(Len(edgar.submissions.filings), maxCountOf(edgar.maxCount))
       /\ \A i \in 1..Len(edgar.out) :
            isStockTransactionFiling(edgar.submissions.filings[i].form,
                                     edgar.submissions.filings[i].primaryDocument)
              => edgar.out[i].isExcluded
  /\ call = "downloadAllFilings" =>
       /\ dl.phase \notin {"listing", "rejected"} => dl.items = edgar.out
       /\ \A k \in SeqRange(dl.requested) \cup SeqRange(dl.outputs) :
            k \in 1..Len(dl.items) /\ ~dl.items[k].isExcluded
  /\ call \in {"listAllFilings", "downloadAllFilings"} /\ edgar.phase = "done" =>
       \A d \in SeqRange(signalDocuments(secDataFilings(edgar.out))) : ~d.isExcluded

\* An excluded filing stays in the list and is passed over; the filing
\* after it is downloaded.
C21_Witness ==
  /\ call = "downloadAllFilings" /\ dl.phase = "done"
  /\ Len(dl.items) = 2
  /\ dl.items[1].isExcluded /\ dl.items[1].form = "4"
  /\ ~dl.items[2].isExcluded
  /\ dl.requested = <<2>> /\ dl.outputs = <<2>>

\* The sum of the lengths of the six lists of a returned record.
RECURSIVE ListLengthsFrom(_, _)
ListLengthsFrom(signals, k) ==
  IF k > Len(Categories) THEN 0
  ELSE Len(signals.lists[Categories[k]]) + ListLengthsFrom(signals, k + 1)

\* C26: for every parsed analysis response the returned record has each of
\* the six categorical fields equal to the parsed list, or empty when the
\* parsed value is absent or not a list, each score defaulting to 0, and
\* summary.totalSignals equal to the sum of the lengths of its six lists.
C26_NormalizedSignals ==
  call = "extractSignals" /\ sig.phase = "done" =>
    /\ \A c \in SeqRange(Categories) :
         sig.signals.lists[c] =
           IF sig.parsed.lists[c].type = "array" THEN sig.parsed.lists[c].items ELSE <<>>
    /\ \A s \in Scores :
         sig.signals.summary[s] =
           IF \E x \in sig.parsed.summary : x[s] # {}
             THEN CHOOSE n \in UNION {x[s] : x \in sig.parsed.summary} : TRUE
             ELSE 0
    /\ sig.signals.summary["totalSignals"] = ListLengthsFrom(sig.signals, 1)

\* C27: the base-profile fetch makes exactly one fallback attempt: for a
\* domain-typed identifier the name lookup is attempted iff the domain lookup
\* failed (at most two lookups, domain first); for a name-typed identifier
\* exactly one lookup is made; the fetch fails iff all attempted lookups fail.
C27_OneFallbackAttempt ==
  call = "crustEnrichCompany" =>
    /\ Len(crust.lookups) <= 2 /\ Len(crust.failed) <= Len(crust.lookups)
    /\ crust.isDomain =>
         /\ crust.lookups[1] = "domain"
         /\ Len(crust.lookups) = 2 => crust.lookups[2] = "name"
         /\ "name" \in SeqRange(crust.lookups) <=> "domain" \in SeqRange(crust.failed)
    /\ ~crust.isDomain => crust.lookups = <<"name">>
    /\ crust.phase = "done" =>
         /\ ~crust.pending
         /\ crust.outcome = "error" <=> crust.failed = crust.lookups
         /\ crust.outcome \in {"ok", "nodata"} <=>
              crust.lookups[Len(crust.lookups)] \notin SeqRange(crust.failed)

\* The domain lookup failed and the name lookup answered.
C27_Witness ==
  /\ call = "crustEnrichCompany" /\ crust.phase = "done" /\ crust.isDomain
  /\ crust.lookups = <<"domain", "name">> /\ crust.failed = <<"domain">>
  /\ crust.outcome = "ok"

C34_NoWriteAfterReturn ==
  /\ [](\A r \in Started :
          req[r].phase = "returned" =>
            \A t \in DOMAIN req[r].tasks : req[r].tstate[t] = "settled")
  /\ [][\A r \in 1..MaxIds :
          req[r].phase = "returned" =>
            /\ req'[r].phase = "returned"
            /\ req'[r].result = req[r].result]_vars

\* A record was returned and the call goes on: a later request of the list
\* has a task that timed out and whose body ended afterwards.
C34_Witness ==
  \E r1, r2 \in Started :
    /\ req[r1].phase = "returned" /\ req[r1].tasks = <<"crustdata">>
    /\ req[r1].result.company = "co"
    /\ req[r2].phase = "rejected"
    /\ \E t \in DOMAIN req[r2].tasks : req[r2].tstate[t] = "late"

\* The positions of the items that are not excluded, in feed order.
RECURSIVE NonExcludedFrom(_, _)
NonExcludedFrom(items, k) ==
  IF k > Len(items) THEN <<>>
  ELSE (IF items[k].isExcluded THEN <<>> ELSE <<k>>) \o NonExcludedFrom(items, k + 1)

\* The elements of s that are not in S, in the order of s.
RECURSIVE Without(_, _)
Without(s, S) ==
  IF s = <<>> THEN <<>>
  ELSE (IF Head(s) \in S THEN <<>> ELSE <<Head(s)>>) \o Without(Tail(s), S)

\* C35: downloadAllFilings processes the filings in feed order; a failed
\* download is skipped without retry and without stopping the loop: the
\* output holds exactly the non-excluded filings whose download succeeded,
\* in feed order, each at most once.
C35_DownloadsInFeedOrder ==
  call = "downloadAllFilings" =>
    /\ Increasing(dl.requested) /\ Increasing(dl.outputs) /\ Increasing(dl.failed)
    /\ SeqRange(dl.outputs) \cap SeqRange(dl.failed) = {}
    /\ dl.phase = "done" =>
         /\ dl.requested = NonExcludedFrom(dl.items, 1)
         /\ dl.outputs = Without(dl.requested, SeqRange(dl.failed))
         /\ SeqRange(dl.failed) \subseteq SeqRange(dl.requested)

\* The first download failed and the loop went on to the next filing.
C35_Witness ==
  /\ call = "downloadAllFilings" /\ dl.phase = "done"
  /\ Len(dl.items) = 2
  /\ dl.requested = <<1, 2>> /\ dl.failed = <<1>> /\ dl.outputs = <<2>>


\* C32: within one discoverTicker call every strategy is invoked at most
\* once, whatever maxRetries is: the log holds exactly one entry for each
\* strategy before the running one (and one for the last strategy reached
\* when the call is over), and every strategy passed over timed out or gave
\* nothing accepted.
C32_NoStrategyRetried ==
  call = "discoverTicker" =>
    /\ Len(disc.log) = (IF disc.phase = "running" THEN disc.i - 1 ELSE disc.i)
    /\ Len(disc.log) <= Len(disc.strategies)
    /\ \A j \in 1..Len(disc.log) : j < disc.i => ~Qualifies(disc.log[j])

C32_Witness ==
  /\ call = "discoverTicker" /\ disc.phase = "done"
  /\ disc.maxRetries = {5} /\ maxRetriesOf(disc.maxRetries) > 1
  /\ Len(disc.log) = Len(disc.strategies)
  /\ disc.log[1].kind = "timeout"
  /\ \E j \in 1..Len(disc.log) :
       /\ disc.log[j].kind = "settled"
       /\ disc.log[j].cand.confidence = ConfidenceThreshold
  /\ disc.result = NoCandidate


\* C33: a strategy that resolves only after its time box has expired is
\* abandoned: the value discoverTicker returns is never its late candidate,
\* it is the candidate of a strategy that settled inside its own time box,
\* or null when no such strategy gave an accepted candidate.
C33_LateCandidateAbandoned ==
  call = "discoverTicker" /\ disc.phase = "done" =>
    /\ \A l \in disc.late :
         /\ disc.log[l.at].kind = "timeout"
         /\ disc.result # l.cand
    /\ disc.result # NoCandidate =>
         \E j \in 1..Len(disc.log) :
           disc.log[j].kind = "settled" /\ disc.log[j].cand = disc.result
    /\ disc.result = NoCandidate =>
         \A j \in 1..Len(disc.log) : ~Qualifies(disc.log[j])

C33_Witness ==
  /\ call = "discoverTicker" /\ disc.phase = "done"
  /\ disc.result = NoCandidate
  /\ Len(disc.log) = Len(disc.strategies)
  /\ \E l \in disc.late :
       /\ l.cand.confidence > ConfidenceThreshold
       /\ disc.log[l.at].kind = "timeout"
       /\ \A j \in (l.at + 1)..Len(disc.log) : NoResult(disc.log[j])


RegionalMethods ==
  {"international_exchange", "european_exchange", "asian_exchange"}

\* The call d0 fed, from entry j on, with what the strategies of call d did,
\* the regional sweeps left out.
RECURSIVE ReplayWithoutRegional(_, _, _)
ReplayWithoutRegional(d0, d, j) ==
  IF j > Len(d.log) \/ d0.phase # "running"
    THEN d0
    ELSE IF d.strategies[j] \in RegionalMethods
           THEN ReplayWithoutRegional(d0, d, j + 1)
           ELSE ReplayWithoutRegional(
                  IF d.log[j].kind = "timeout"
                    THEN discoverTickerTimeout(d0)
                    ELSE discoverTickerSettle(d0, d.log[j].cand),
                  d, j + 1)

\* C37: a candidate of a regional exchange sweep (confidence 0.70) is never
\* the value discoverTicker returns, and the same call made with
\* includeInternational = false, its other strategies behaving alike,
\* returns the same value.
C37_RegionalNeverReturned ==
  call = "discoverTicker" /\ disc.phase = "done" =>
    /\ disc.result.method \notin RegionalMethods
    /\ \A j \in 1..Len(disc.log) :
         disc.strategies[j] \in RegionalMethods => ~Qualifies(disc.log[j])
    /\ LET off == ReplayWithoutRegional(
                    discoverTickerStart(disc.name, disc.website, {FALSE},
                                        disc.maxRetries), disc, 1)
       IN  off.phase = "done" /\ off.result = disc.result

C37_Witness ==
  /\ call = "discoverTicker" /\ disc.phase = "done"
  /\ Len(disc.strategies) = 10 /\ Len(disc.log) = 9
  /\ \A j \in 6..8 :
       /\ disc.strategies[j] \in RegionalMethods
       /\ disc.log[j].kind = "settled"
       /\ disc.log[j].cand.confidence = ConfidenceThreshold
  /\ disc.result.method = "web_scraping"


\* Faulty variant of secTask: the branch asks for isPublic only.
secTaskIsPublicOnly(secMatch) ==
  IF secMatch.isPublic
    THEN [isPublic |-> TRUE, confidence |-> secMatch.confidence,
          ticker |-> secMatch.ticker, cik |-> secMatch.cik, listed |-> TRUE]
    ELSE [isPublic |-> FALSE, confidence |-> secMatch.confidence,
          ticker |-> Null, cik |-> Null, listed |-> FALSE]

\* The SEC task of the orchestrator after identifyPublicCompany resolved
\* with secMatch: result.secData, and whether listAllFilings was called.
secTask(secMatch) ==
  IF secMatch.isPublic /\ Truthy(secMatch.cik)
    THEN [isPublic |-> TRUE, confidence |-> secMatch.confidence,
          ticker |-> secMatch.ticker, cik |-> secMatch.cik, listed |-> TRUE]
    ELSE [isPublic |-> FALSE, confidence |-> secMatch.confidence,
          ticker |-> Null, cik |-> Null, listed |-> FALSE]

\* C40: an override hit of identifyPublicCompany is public, carries a ticker
\* and no cik, so the orchestrator's SEC task, which asks for isPublic and
\* cik, records the company as not public and lists no filings.
C40_OverrideHitNotListed ==
  call = "identifyPublicCompany" /\ sec.phase = "done"
    /\ sec.result.source = "overrides" =>
      /\ sec.result.isPublic /\ Truthy(sec.result.ticker)
      /\ sec.result.cik = Null
      /\ ~secTask(sec.result).isPublic
      /\ ~secTask(sec.result).listed
      /\ secTask(sec.result).cik = Null

C40_Witness ==
  /\ call = "identifyPublicCompany" /\ sec.phase = "done"
  /\ sec.result.source = "overrides" /\ sec.consulted = <<"domain", "name">>
  /\ sec.result.isPublic /\ sec.result.ticker = "GNRL"
  /\ secTask(sec.result) =
       [isPublic |-> FALSE, confidence |-> 100, ticker |-> Null,
        cik |-> Null, listed |-> FALSE]


ParentheticalOnly ==
  [c \in {"Apple (AAPL)", "Boeing Co (BA) rose"} |->
     IF c = "Apple (AAPL)" THEN "AAPL" ELSE "BA"]

\* C31: every ticker extractTickerFromContent returns consists of 1 to 5
\* uppercase letters, and a text whose only ticker evidence is a bare
\* parenthetical such as (AAPL) yields that ticker.
C31_TickerFromText ==
  call = "extractTickerFromContent" =>
    /\ ext.ticker # Null =>
         /\ Len(ext.ticker) \in 1..5
         /\ \A k \in 1..Len(ext.ticker) : CharAt(ext.ticker, k) \in UpperChars
    /\ ext.content \in DOMAIN ParentheticalOnly =>
         ext.ticker = ParentheticalOnly[ext.content]

\* Every task of the gate has left the race and returned its permit, nobody
\* waits, and all the permits are free again.
GateDrained(g, limit) ==
  /\ \A t \in DOMAIN g.tstate : g.tstate[t] \notin {"queued", "racing"} /\ g.rel[t] = 1
  /\ g.sem.waiting = <<>>
  /\ g.sem.permits = limit

\* Every gate in use whose limit is at least 1 is drained.
GatesDrained ==
  /\ LimitOf(bulk.opts.maxConcurrency) >= 1 =>
       \A r \in Started : GateDrained(req[r], LimitOf(bulk.opts.maxConcurrency))
  /\ tick.phase # "idle" /\ LimitOf(tick.maxConcurrency) >= 1 =>
       GateDrained(tick, LimitOf(tick.maxConcurrency))

\* C39: with maxConcurrency >= 1, and every admitted task eventually
\* settling or timing out, the gated execution of a finite task list makes
\* progress: from some point on every task that was started or queued has
\* been admitted and has released its permit, no waiter is left in the
\* queue and the semaphore holds maxConcurrency free permits again.
C39_GateMakesProgress == <>[]GatesDrained

\* Four companies behind one permit: all admitted in turn, all released.
C39_Witness ==
  /\ call = "discoverTickers" /\ tick.n = 4 /\ tick.maxConcurrency = {1}
  /\ tick.sem.granted = <<1, 2, 3, 4>>
  /\ GateDrained(tick, 1)

====
